---- MODULE Spec2Model ----
(***************************************************************************)
(* Colored Petri net engine (ColoredPetriNet) of petri-graph-template.     *)
(*                                                                         *)
(* The net is the aggregate of three private fields: the Map `places`, the *)
(* Map `transitions` (both iterate in insertion order, so each is a        *)
(* sequence of entries), the array `arcs`, and the integer `tokenCounter`. *)
(* fireTransition is an async function: everything up to the               *)
(* `await transition.handler(binding)` runs synchronously inside the call, *)
(* the rest runs when the handler's promise settles.  A suspended call is  *)
(* an element of `inflight`.                                               *)
(***************************************************************************)
EXTENDS Integers, Sequences, FiniteSets, TLC

VARIABLES places, transitions, arcs, tokenCounter, inflight, last, ledger, logger

vars == <<places, transitions, arcs, tokenCounter, inflight, last, ledger, logger>>

(***************************************************************************)
(* Bounds of the exploration.                                              *)
(***************************************************************************)
\* tokenCounter never exceeds this many minted tokens
MaxTokens == 3
\* at most this many fireTransition calls are suspended at their handler
MaxInFlight == 2
\* a net built at run time holds at most this many arcs
MaxArcs == 2
\* a transition reads at most this many places
MaxWidth == 5
\* the call stack holds at most this many frames of findPathToFulfill; every
\* net explored has fewer transitions
MaxStack == 6
\* Date.now() reads at most this many minutes after the logger was constructed
MaxClock == 5
\* logToolCall is called at most this many times
MaxCalls == 3

(***************************************************************************)
(* Token colors.  A color is an arbitrary JS value; here every color is an *)
(* object (a function from field names to values), so that a binding,      *)
(* which is what a handler-less firing mints, is a color as well.          *)
(***************************************************************************)
EmptyObject == [x \in {} |-> x]
ColorA == [v |-> "a"]
ColorB == [v |-> "b"]
SeedColors == {ColorA, ColorB}

\* obj[key] = value
Put(obj, key, value) ==
  [x \in (DOMAIN obj) \cup {key} |-> IF x = key THEN value ELSE obj[x]]

\* delete obj[key]
Delete(obj, key) == [x \in (DOMAIN obj) \ {key} |-> obj[x]]

(***************************************************************************)
(* Map<string, {id, ...}> as the sequence of its values in insertion       *)
(* order.  Map.set on a key already present replaces the value in place.   *)
(***************************************************************************)
MapHas(m, id) == \E i \in 1..Len(m) : m[i].id = id

MapIndex(m, id) == CHOOSE i \in 1..Len(m) : m[i].id = id

MapGet(m, id) == m[MapIndex(m, id)]

MapSet(m, entry) ==
  IF MapHas(m, entry.id)
    THEN [m EXCEPT ![MapIndex(m, entry.id)] = entry]
    ELSE Append(m, entry)

MapIds(m) == {m[i].id : i \in 1..Len(m)}

\* this.arcs.filter(arc => arc[field] === id), from the i-th arc on
RECURSIVE arcsWhere(_, _, _, _)
arcsWhere(as, field, id, i) ==
  IF i > Len(as) THEN <<>>
  ELSE IF as[i][field] = id THEN <<as[i]>> \o arcsWhere(as, field, id, i + 1)
  ELSE arcsWhere(as, field, id, i + 1)

\* the elements of an array
Range(s) == {s[i] : i \in 1..Len(s)}

\* a removal that fills the hole with the last element
SpliceSwap(s, index) ==
  [i \in 1..(Len(s) - 1) |-> IF i = index THEN s[Len(s)] ELSE s[i]]

\* Array.prototype.splice(index, 1)
Splice(s, index) ==
  [i \in 1..(Len(s) - 1) |-> IF i < index THEN s[i] ELSE s[i + 1]]

(***************************************************************************)
(* Patterns, expressions, guards and handlers are functions supplied by    *)
(* the caller.  The model draws them from a small catalogue, named by a    *)
(* string; "none" is the absent (undefined) optional field.                *)
(***************************************************************************)
IsColor(c, value) == "v" \in DOMAIN c /\ c["v"] = value

\* !arc.pattern || arc.pattern(token)
PatternHolds(arc, token) ==
  CASE arc.pattern = "none" -> TRUE
    [] arc.pattern = "isA" -> IsColor(token.color, "a")
    [] arc.pattern = "isB" -> IsColor(token.color, "b")
    [] arc.pattern = "hasResults" ->
         \* token.color.results !== undefined && token.color.results.length > 0
         /\ "results" \in DOMAIN token.color
         /\ Len(token.color.results) > 0

\* the expression never applied: every output token gets the raw result
ExpressionIgnored(arc, result) == result

\* arc.expression ? arc.expression(result) : result
ExpressionResult(arc, result) ==
  CASE arc.expression = "none" -> result
    [] arc.expression = "identity" -> result
    [] arc.expression = "stamp" -> [v |-> "s"]

\* `${arc.source}_token`
VariableName(source) == source \o "_token"

\* transition.guard(binding), for a transition that has a guard
GuardResult(transition, binding) ==
  CASE transition.guard = "pIsB" ->
         /\ VariableName("p") \in DOMAIN binding
         /\ IsColor(binding[VariableName("p")], "b")
    [] transition.guard = "never" -> FALSE
    [] transition.guard = "isEmpty" -> DOMAIN binding = {}
    [] transition.guard = "hasContent" ->
         \* binding.file_read_token.content !== undefined
         /\ VariableName("file_read") \in DOMAIN binding
         /\ "content" \in DOMAIN binding[VariableName("file_read")]

\* the guard evaluated but its verdict ignored
GuardRejectsIgnored(transition, binding) ==
  transition.guard # "none" /\ GuardResult(transition, binding) /\ FALSE

\* transition.guard && !transition.guard(binding)
GuardRejects(transition, binding) ==
  transition.guard # "none" /\ ~GuardResult(transition, binding)

\* a handler that is called again after its first call
invocationsWithRetry(transition) == IF transition.handler # "none" THEN 2 ELSE 0

\* how often a call that reaches `if (transition.handler)` invokes the handler
invocations(transition) == IF transition.handler # "none" THEN 1 ELSE 0

\* a search that finds nothing
searchResultsNone == <<>>

\* the results of the simulated search
searchResults == <<"file1.ts", "file2.ts", "README.md">>

\* the handler throws: the handlers of the file operations read a token of
\* the binding and throw when it is absent or lacks what they need
HandlerThrows(transition, binding) ==
  CASE transition.handler = "readFile" ->
         ~ /\ VariableName("file_found") \in DOMAIN binding
           /\ "path" \in DOMAIN binding[VariableName("file_found")]
    [] transition.handler = "searchRead" ->
         ~ /\ VariableName("search_results") \in DOMAIN binding
           /\ "results" \in DOMAIN binding[VariableName("search_results")]
           /\ Len(binding[VariableName("search_results")].results) > 0
    [] transition.handler \in {"writeFile", "modifyWrite"} ->
         ~ /\ VariableName("file_read") \in DOMAIN binding
           /\ {"path", "content"} \subseteq DOMAIN binding[VariableName("file_read")]
    [] OTHER -> FALSE

\* the handlers "done" and "echo" stand for any handler: their promise may
\* resolve or reject
HandlerMayReject(transition, binding) ==
  transition.handler \in {"done", "echo"} \/ HandlerThrows(transition, binding)

\* the value a handler's promise resolves to, when it resolves
HandlerValue(transition, binding) ==
  CASE transition.handler = "done" -> [v |-> "d"]
    [] transition.handler = "echo" -> binding
    [] transition.handler = "searchFiles" ->
         [query |-> IF "query" \in DOMAIN binding /\ binding.query # ""
                      THEN binding.query ELSE "*.ts",
          results |-> searchResults]
    [] transition.handler = "readFile" ->
         LET fileToken == binding[VariableName("file_found")]
         IN  [path |-> fileToken.path,
              content |-> "// Content of " \o fileToken.path
                          \o "\nexport function example() { return 42; }",
              exists |-> TRUE]
    [] transition.handler = "writeFile" ->
         LET fileToken == binding[VariableName("file_read")]
         IN  [path |-> fileToken.path, content |-> fileToken.content, exists |-> TRUE]
    [] transition.handler = "searchRead" ->
         LET firstFile == binding[VariableName("search_results")].results[1]
         IN  [path |-> firstFile, content |-> "// Content of " \o firstFile,
              exists |-> TRUE]
    [] transition.handler = "modifyWrite" ->
         LET fileToken == binding[VariableName("file_read")]
         IN  [path |-> fileToken.path,
              content |-> fileToken.content \o "\n// Modified by AI",
              exists |-> TRUE]

\* arc.weight || 1   (an absent weight is modelled as 0, which `||` maps to 1 too)
Weight(arc) == IF arc.weight = 0 THEN 1 ELSE arc.weight


(***************************************************************************)
(* Net structure.  A net is the record of the three structure fields.      *)
(***************************************************************************)
EmptyNet == [places |-> <<>>, transitions |-> <<>>, arcs |-> <<>>]

\* this.places.set(place.id, place)
addPlace(net, place) == [net EXCEPT !.places = MapSet(net.places, place)]

\* this.transitions.set(transition.id, transition)
addTransition(net, transition) ==
  [net EXCEPT !.transitions = MapSet(net.transitions, transition)]

\* this.arcs.push(arc)
addArc(net, arc) == [net EXCEPT !.arcs = Append(net.arcs, arc)]

\* this.arcs.filter(arc => arc.target === transitionId)
getInputArcs(as, transitionId) == arcsWhere(as, "target", transitionId, 1)

\* this.arcs.filter(arc => arc.source === transitionId)
getOutputArcs(as, transitionId) == arcsWhere(as, "source", transitionId, 1)

(***************************************************************************)
(* addToken: the place must be registered; the id is `token-${++counter}`, *)
(* modelled by the counter value.  Returns the new places map and counter  *)
(* and the id returned (<<>> when nothing is returned); ok = FALSE is the  *)
(* thrown `Place ... not found`.                                           *)
(***************************************************************************)
\* the token put in front of the others
unshift(tokens, token) == <<token>> \o tokens

\* place.tokens.push(token)
push(tokens, token) == Append(tokens, token)

\* a counter that is read but never advanced
incrementStuck(counter) == counter

\* ++this.tokenCounter
increment(counter) == counter + 1

addToken(pl, counter, placeId, color) ==
  IF ~MapHas(pl, placeId)
    THEN [ok |-> FALSE, places |-> pl, tokenCounter |-> counter, tokenId |-> <<>>]
    ELSE LET place == MapGet(pl, placeId)
             token == [id |-> increment(counter), color |-> color, place |-> placeId]
             grown == [place EXCEPT !.tokens = push(place.tokens, token)]
         IN  [ok |-> TRUE,
              places |-> MapSet(pl, grown),
              tokenCounter |-> increment(counter),
              tokenId |-> <<increment(counter)>>]

(***************************************************************************)
(* findValidBindings / checkBinding.  checkBinding mutates one shared      *)
(* currentBinding object: it sets the arc's variable, recurses, and        *)
(* deletes the variable again.  Each call returns the bindings it pushed   *)
(* (in order) and the state of currentBinding when it returns.             *)
(***************************************************************************)
RECURSIVE checkBinding(_, _, _, _), checkBindingTokens(_, _, _, _, _)
checkBinding(pl, inputArcs, arcIndex, currentBinding) ==
  IF arcIndex > Len(inputArcs)
    THEN [bindings |-> <<currentBinding>>, current |-> currentBinding]
    ELSE IF ~MapHas(pl, inputArcs[arcIndex].source)
      THEN [bindings |-> <<>>, current |-> currentBinding]
      ELSE checkBindingTokens(pl, inputArcs, arcIndex, 1, currentBinding)

\* the `for (const token of place.tokens)` loop, from the k-th token on
checkBindingTokens(pl, inputArcs, arcIndex, k, currentBinding) ==
  LET arc == inputArcs[arcIndex]
      tokens == MapGet(pl, arc.source).tokens
  IN  IF k > Len(tokens)
        THEN [bindings |-> <<>>, current |-> currentBinding]
        ELSE IF PatternHolds(arc, tokens[k])
          THEN LET variableName == VariableName(arc.source)
                   set == Put(currentBinding, variableName, tokens[k].color)
                   inner == checkBinding(pl, inputArcs, arcIndex + 1, set)
                   deleted == Delete(inner.current, variableName)
                   rest == checkBindingTokens(pl, inputArcs, arcIndex, k + 1, deleted)
               IN  [bindings |-> inner.bindings \o rest.bindings,
                    current |-> rest.current]
          ELSE checkBindingTokens(pl, inputArcs, arcIndex, k + 1, currentBinding)

\* no binding at all for a transition without input arcs
noInputBindingsNone == <<>>

\* if (inputArcs.length === 0) return [{}]
noInputBindings == <<EmptyObject>>

\* a search that stops at the first binding it finds
findValidBindingsFirst(pl, inputArcs) ==
  IF Len(inputArcs) = 0
    THEN noInputBindings
    ELSE LET bindings == checkBinding(pl, inputArcs, 1, EmptyObject).bindings
         IN  IF Len(bindings) > 1 THEN <<bindings[1]>> ELSE bindings

findValidBindings(pl, inputArcs) ==
  IF Len(inputArcs) = 0
    THEN noInputBindings
    ELSE checkBinding(pl, inputArcs, 1, EmptyObject).bindings


(***************************************************************************)
(* Hints.  A transition name is a string; it is modelled as the sequence   *)
(* of its characters so that name.split(':') can be computed.              *)
(***************************************************************************)
\* String.prototype.split(':') : the segments between the separators
RECURSIVE SplitFrom(_, _, _)
SplitFrom(name, i, segment) ==
  IF i > Len(name) THEN <<segment>>
  ELSE IF name[i] = ":" THEN <<segment>> \o SplitFrom(name, i + 1, <<>>)
  ELSE SplitFrom(name, i + 1, Append(segment, name[i]))

Split(name) == SplitFrom(name, 1, <<>>)

\* Object.keys(binding).length
BindingSize(binding) == Cardinality(DOMAIN binding)

\* the cap left out
minUncapped(a, b) == a

\* Math.min(a, b)
min(a, b) == IF a < b THEN a ELSE b

\* the boost given to every name of three segments or more
hasNameBoostFromThree(parts) == Len(parts) >= 3

\* parts.length === 3
hasNameBoost(parts) == Len(parts) = 3

\* Confidence is a double: 0.5, + 0.1 * bindingSize, + 0.2 for a name of three
\* segments, Math.min(confidence, 1.0).  It is given here in hundredths, rounded
\* down.  In double arithmetic every sum the code can form below the cap is the
\* double nearest to its decimal value (0.5, 0.6, ..., 1.0), except
\* (0.5 + 0.1 * 2) + 0.2, which is 0.8999999999999999, the double just below
\* 0.9: it is 89 hundredths, and 0.5 + 0.1 * 4 = 0.9 is 90.
calculateConfidence(transition, binding) ==
  LET bindingSize == BindingSize(binding)
      withTokens == IF bindingSize > 0 THEN 50 + 10 * bindingSize ELSE 50
      withName == IF hasNameBoost(Split(transition.name))
                    THEN (IF bindingSize = 2 THEN 89 ELSE withTokens + 20)
                    ELSE withTokens
  IN  min(withName, 100)

\* generateExample: verb("noun") / verb("noun", "verb") / the name itself
generateExample(transition) ==
  LET parts == Split(transition.name)
      quote == <<"\"">>
  IN  IF Len(parts) = 2
        THEN parts[1] \o <<"(">> \o quote \o parts[2] \o quote \o <<")">>
        ELSE IF Len(parts) = 3
          THEN parts[1] \o <<"(">> \o quote \o parts[2] \o quote \o <<",", " ">>
               \o quote \o parts[3] \o quote \o <<")">>
          ELSE transition.name

\* the hints pushed for one transition: one per binding the guard accepts
RECURSIVE hintsOfBindings(_, _, _)
hintsOfBindings(transition, bindings, k) ==
  IF k > Len(bindings) THEN <<>>
  ELSE IF GuardRejects(transition, bindings[k])
    THEN hintsOfBindings(transition, bindings, k + 1)
    ELSE <<[transitionId |-> transition.id,
            transitionName |-> transition.name,
            confidence |-> calculateConfidence(transition, bindings[k]),
            requiredTokens |-> DOMAIN bindings[k],
            example |-> generateExample(transition)]>>
         \o hintsOfBindings(transition, bindings, k + 1)

\* the `for (const transition of this.transitions.values())` loop
RECURSIVE collectHints(_, _, _, _)
collectHints(pl, trs, as, i) ==
  IF i > Len(trs) THEN <<>>
  ELSE hintsOfBindings(trs[i],
                       findValidBindings(pl, getInputArcs(as, trs[i].id)), 1)
       \o collectHints(pl, trs, as, i + 1)

\* an insertion that puts a hint before the hints of equal confidence
RECURSIVE InsertHintUnstable(_, _)
InsertHintUnstable(sorted, hint) ==
  IF sorted = <<>> THEN <<hint>>
  ELSE IF sorted[Len(sorted)].confidence > hint.confidence
    THEN Append(sorted, hint)
    ELSE Append(InsertHintUnstable(SubSeq(sorted, 1, Len(sorted) - 1), hint),
                sorted[Len(sorted)])

\* hints.sort((a, b) => b.confidence - a.confidence): a stable sort, so an
\* insertion sort that never moves a hint past one of equal confidence
RECURSIVE InsertHint(_, _)
InsertHint(sorted, hint) ==
  IF sorted = <<>> THEN <<hint>>
  ELSE IF sorted[Len(sorted)].confidence >= hint.confidence
    THEN Append(sorted, hint)
    ELSE Append(InsertHint(SubSeq(sorted, 1, Len(sorted) - 1), hint),
                sorted[Len(sorted)])

RECURSIVE SortHints(_, _)
SortHints(hints, n) ==
  IF n = 0 THEN <<>> ELSE InsertHint(SortHints(hints, n - 1), hints[n])

getEnabledTransitions(pl, trs, as) ==
  LET hints == collectHints(pl, trs, as, 1) IN SortHints(hints, Len(hints))

\* the hints in the order the loops pushed them, never sorted
availableHintsUnranked(pl, trs, as) == collectHints(pl, trs, as, 1)

\* const availableHints = this.getEnabledTransitions(), for the error thrown
availableHints(pl, trs, as) == getEnabledTransitions(pl, trs, as)

\* getState(): the places, transitions and arcs as the caller reads them
getState(pl, trs, as) == [places |-> pl, transitions |-> trs, arcs |-> as]


(***************************************************************************)
(* Contextual hints (generateContextualHint and its helpers).  They read   *)
(* the value of getState.  findPathToFulfill calls itself for the input    *)
(* places of every producing transition that is not enabled; `depth` is    *)
(* the number of its frames on the call stack, and a call that would need  *)
(* more than MaxStack frames throws RangeError (ok = FALSE), which no      *)
(* frame catches.                                                          *)
(***************************************************************************)
\* state.places.find(p => p.id === placeId): <<>> stands for undefined
findPlace(state, placeId) ==
  IF MapHas(state.places, placeId) THEN <<MapGet(state.places, placeId)>> ELSE <<>>

\* state.transitions.find(t => t.id === transitionId)
findTransition(state, transitionId) ==
  IF MapHas(state.transitions, transitionId)
    THEN <<MapGet(state.transitions, transitionId)>> ELSE <<>>

\* the table placeDescriptions
placeDescriptions ==
  [file_found |-> "a found file", file_read |-> "file content",
   search_results |-> "search results", file_written |-> "a written file",
   start |-> "initial state"]

\* placeDescriptions[place.id] || place.name || place.id
humanReadablePlace(place) ==
  IF place = <<>> THEN "unknown requirement"
  ELSE IF place[1].id \in DOMAIN placeDescriptions THEN placeDescriptions[place[1].id]
  ELSE IF place[1].name # "" THEN place[1].name
  ELSE place[1].id

\* state.arcs.filter(arc => arc.target === transitionId).map(arc => arc.source)
getInputPlaces(state, transitionId) ==
  LET inputArcs == arcsWhere(state.arcs, "target", transitionId, 1)
  IN  [i \in 1..Len(inputArcs) |-> inputArcs[i].source]

\* every input arc has a registered source place holding a token
checkTransitionEnabled(state, transitionId) ==
  \A arc \in Range(arcsWhere(state.arcs, "target", transitionId, 1)) :
    /\ findPlace(state, arc.source) # <<>>
    /\ Len(findPlace(state, arc.source)[1].tokens) # 0

\* [...new Set(path)]: the first occurrence of every name, in order
RECURSIVE unique(_)
unique(path) ==
  IF path = <<>> THEN <<>>
  ELSE LET front == unique(SubSeq(path, 1, Len(path) - 1))
           name == path[Len(path)]
       IN  IF name \in Range(front) THEN front ELSE Append(front, name)

RECURSIVE findPathToFulfill(_, _, _), pathForPlaces(_, _, _, _), pathForArcs(_, _, _, _)
findPathToFulfill(state, targetPlaces, depth) ==
  IF depth > MaxStack THEN [ok |-> FALSE, path |-> <<>>]
  ELSE LET found == pathForPlaces(state, targetPlaces, 1, depth)
       IN  [ok |-> found.ok, path |-> unique(found.path)]

\* the loop `for (const placeId of targetPlaces)` from the i-th place on
pathForPlaces(state, targetPlaces, i, depth) ==
  IF i > Len(targetPlaces) THEN [ok |-> TRUE, path |-> <<>>]
  ELSE LET producingArcs == arcsWhere(state.arcs, "target", targetPlaces[i], 1)
           here == pathForArcs(state, producingArcs, 1, depth)
       IN  IF ~here.ok THEN here
           ELSE LET rest == pathForPlaces(state, targetPlaces, i + 1, depth)
                IN  [ok |-> rest.ok, path |-> here.path \o rest.path]

\* the loop `for (const arc of producingArcs)` from the k-th arc on
pathForArcs(state, producingArcs, k, depth) ==
  IF k > Len(producingArcs) THEN [ok |-> TRUE, path |-> <<>>]
  ELSE LET transition == findTransition(state, producingArcs[k].source)
           here ==
             IF transition = <<>> THEN [ok |-> TRUE, path |-> <<>>]
             ELSE IF checkTransitionEnabled(state, transition[1].id)
               THEN [ok |-> TRUE, path |-> <<transition[1].name>>]
               ELSE LET priorPath ==
                          findPathToFulfill(state,
                            getInputPlaces(state, transition[1].id), depth + 1)
                    IN  [ok |-> priorPath.ok,
                         path |-> priorPath.path \o <<transition[1].name>>]
       IN  IF ~here.ok THEN here
           ELSE LET rest == pathForArcs(state, producingArcs, k + 1, depth)
                IN  [ok |-> rest.ok, path |-> here.path \o rest.path]

\* the two templates of buildReadableHint: `${name} is ready to execute`, and
\* `${name} needs: ${needs}\nTry instead: ${path}` with needs joined by ', '
\* and path by ' -> '; the lists are kept as lists
buildReadableHint(transition, missingRequirements, suggestedPath) ==
  IF Len(missingRequirements) = 0
    THEN [template |-> "is ready to execute", name |-> transition.name,
          needs |-> <<>>, try |-> <<>>]
    ELSE [template |-> "needs / Try instead", name |-> transition.name,
          needs |-> missingRequirements, try |-> suggestedPath]

\* the places pushed by `for (const arc of inputArcs)`, from the k-th arc on
RECURSIVE missingPlacesFrom(_, _, _)
missingPlacesFrom(state, inputArcs, k) ==
  IF k > Len(inputArcs) THEN <<>>
  ELSE LET place == findPlace(state, inputArcs[k].source)
       IN  (IF place # <<>> /\ Len(place[1].tokens) = 0 THEN <<place[1].id>> ELSE <<>>)
           \o missingPlacesFrom(state, inputArcs, k + 1)

generateContextualHint(pl, trs, as, desiredTransitionId) ==
  LET state == getState(pl, trs, as)
      transition == findTransition(state, desiredTransitionId)
  IN  IF transition = <<>>
        THEN [outcome |-> "Done", missingPlaces |-> <<>>, missingRequirements |-> <<>>,
              suggestedPath |-> <<>>,
              readable |-> [template |-> "Unknown transition", name |-> <<>>,
                            needs |-> <<>>, try |-> <<>>]]
        ELSE
          LET inputArcs == arcsWhere(state.arcs, "target", desiredTransitionId, 1)
              missingPlaces == missingPlacesFrom(state, inputArcs, 1)
              missingRequirements ==
                [i \in 1..Len(missingPlaces) |->
                   humanReadablePlace(findPlace(state, missingPlaces[i]))]
              found == findPathToFulfill(state, missingPlaces, 1)
          IN  IF ~found.ok
                THEN [outcome |-> "RangeError", missingPlaces |-> missingPlaces,
                      missingRequirements |-> missingRequirements,
                      suggestedPath |-> <<>>,
                      readable |-> [template |-> "", name |-> <<>>,
                                    needs |-> <<>>, try |-> <<>>]]
                ELSE [outcome |-> "Done", missingPlaces |-> missingPlaces,
                      missingRequirements |-> missingRequirements,
                      suggestedPath |-> found.path,
                      readable |-> buildReadableHint(transition[1], missingRequirements,
                                                     found.path)]

(***************************************************************************)
(* fireTransition, synchronous part (up to the await of the handler).      *)
(***************************************************************************)
\* selectedBinding ? [selectedBinding] : this.findValidBindings(inputArcs)
\* (`sel` is <<>> for an absent argument and <<binding>> for a supplied one;
\* every object, the empty one included, is truthy)
candidateBindings(pl, inputArcs, sel) ==
  IF sel # <<>> THEN sel ELSE findValidBindings(pl, inputArcs)

\* the emptiness test left out: the call goes on with bindings[0]
noCandidateUnchecked(bindings) == FALSE

\* bindings.length === 0
noCandidate(bindings) == Len(bindings) = 0

\* place.tokens.findIndex(t => !arc.pattern || arc.pattern(t)); 0 stands for -1
findIndex(tokens, arc) ==
  IF \E i \in 1..Len(tokens) : PatternHolds(arc, tokens[i])
    THEN CHOOSE i \in 1..Len(tokens) :
           /\ PatternHolds(arc, tokens[i])
           /\ \A j \in 1..(i - 1) : ~PatternHolds(arc, tokens[j])
    ELSE 0

\* the inner loop `for (let i = 0; i < tokensToRemove; i++)` on one arc:
\* `left` iterations remain.  `removed` collects what was spliced out.
RECURSIVE removeForArc(_, _, _, _)
removeForArc(pl, arc, left, removed) ==
  IF left = 0 THEN [places |-> pl, removed |-> removed]
  ELSE LET place == MapGet(pl, arc.source)
           tokenIndex == findIndex(place.tokens, arc)
       IN  IF tokenIndex # 0
             THEN removeForArc(
                    MapSet(pl, [place EXCEPT !.tokens = Splice(place.tokens, tokenIndex)]),
                    arc, left - 1,
                    Append(removed, [arc |-> arc.id, token |-> place.tokens[tokenIndex]]))
             ELSE removeForArc(pl, arc, left - 1, removed)

\* the loop `for (const arc of inputArcs)` from the k-th arc on
RECURSIVE removeInputTokens(_, _, _, _)
removeInputTokens(pl, inputArcs, k, removed) ==
  IF k > Len(inputArcs) THEN [places |-> pl, removed |-> removed]
  ELSE IF MapHas(pl, inputArcs[k].source)
    THEN LET r == removeForArc(pl, inputArcs[k], Weight(inputArcs[k]), removed)
         IN  removeInputTokens(r.places, inputArcs, k + 1, r.removed)
    ELSE removeInputTokens(pl, inputArcs, k + 1, removed)

(***************************************************************************)
(* fireTransition, the part after the handler: the output arcs are read    *)
(* when the call resumes; addToken throws on an unregistered target, which *)
(* ends the loops with the tokens minted so far in place.                  *)
(***************************************************************************)
\* the flat list of addToken calls the two loops make: arc by arc, weight times
RECURSIVE outputCalls(_, _, _)
outputCalls(outputArcs, k, left) ==
  IF k > Len(outputArcs) THEN <<>>
  ELSE IF left = 0
    THEN IF k + 1 > Len(outputArcs) THEN <<>>
         ELSE outputCalls(outputArcs, k + 1, Weight(outputArcs[k + 1]))
    ELSE <<outputArcs[k]>> \o outputCalls(outputArcs, k, left - 1)

RECURSIVE produceFrom(_, _, _, _, _, _)
produceFrom(pl, counter, calls, result, n, minted) ==
  IF n > Len(calls)
    THEN [ok |-> TRUE, places |-> pl, tokenCounter |-> counter, minted |-> minted]
    ELSE LET tokenColor == ExpressionResult(calls[n], result)
             added == addToken(pl, counter, calls[n].target, tokenColor)
         IN  IF added.ok
               THEN produceFrom(added.places, added.tokenCounter, calls, result, n + 1,
                                Append(minted, [arc |-> calls[n].id,
                                                id |-> added.tokenCounter,
                                                place |-> calls[n].target]))
               ELSE [ok |-> FALSE, places |-> pl, tokenCounter |-> counter,
                     minted |-> minted]

produceOutputTokens(pl, counter, outputArcs, result) ==
  LET calls == IF Len(outputArcs) = 0 THEN <<>>
               ELSE outputCalls(outputArcs, 1, Weight(outputArcs[1]))
  IN  produceFrom(pl, counter, calls, result, 1, <<>>)


\* a lookup that falls back on the first registered transition
getTransitionOrFirst(trs, transitionId) ==
  IF MapHas(trs, transitionId) THEN <<MapGet(trs, transitionId)>>
  ELSE IF Len(trs) > 0 THEN <<trs[1]>> ELSE <<>>

\* this.transitions.get(transitionId): <<>> stands for undefined
getTransition(trs, transitionId) ==
  IF MapHas(trs, transitionId) THEN <<MapGet(trs, transitionId)>> ELSE <<>>

\* bindings[0]: indexing past the end of an array yields undefined
Undefined == [undefined |-> TRUE]

firstBinding(bindings) == IF Len(bindings) >= 1 THEN bindings[1] ELSE Undefined

(***************************************************************************)
(* The synchronous part of fireTransition as one function of the net:      *)
(* outcome "NotFound" (unknown transition), "NotEnabled" (no candidate     *)
(* binding) and "GuardFailed" are the three throws before any mutation;    *)
(* "Suspended" is the call waiting for its handler, input tokens already   *)
(* spliced out; without a handler the call runs on to the output loops and *)
(* ends "Done", or "PlaceNotFound" when addToken throws.                   *)
(***************************************************************************)
fireStart(pl, trs, as, counter, transitionId, sel) ==
  LET quiet == [places |-> pl, tokenCounter |-> counter, bindings |-> <<>>,
                binding |-> <<>>, removed |-> <<>>, minted |-> <<>>,
                hints |-> <<>>, handlerCalls |-> 0, result |-> <<>>]
  IN
  IF getTransition(trs, transitionId) = <<>>
    THEN quiet @@ [outcome |-> "NotFound"]
    ELSE
      LET transition == getTransition(trs, transitionId)[1]
          inputArcs == getInputArcs(as, transitionId)
          bindings == candidateBindings(pl, inputArcs, sel)
      IN
      IF noCandidate(bindings)
        THEN [quiet EXCEPT !.hints = availableHints(pl, trs, as)]
             @@ [outcome |-> "NotEnabled"]
        ELSE
          LET binding == firstBinding(bindings) IN
          IF GuardRejects(transition, binding)
            THEN [quiet EXCEPT !.hints = availableHints(pl, trs, as),
                               !.bindings = bindings,
                               !.binding = <<binding>>]
                 @@ [outcome |-> "GuardFailed"]
            ELSE
              LET taken == removeInputTokens(pl, inputArcs, 1, <<>>)
                  started == [quiet EXCEPT !.places = taken.places,
                                           !.bindings = bindings,
                                           !.binding = <<binding>>,
                                           !.removed = taken.removed]
              IN
              IF transition.handler # "none"
                THEN [started EXCEPT !.handlerCalls = invocations(transition)]
                     @@ [outcome |-> "Suspended"]
                ELSE
                  LET out == produceOutputTokens(taken.places, counter,
                                                 getOutputArcs(as, transitionId), binding)
                  IN  [started EXCEPT !.places = out.places,
                                      !.tokenCounter = out.tokenCounter,
                                      !.minted = out.minted,
                                      !.result = <<binding>>]
                      @@ [outcome |-> IF out.ok THEN "Done" ELSE "PlaceNotFound"]


(***************************************************************************)
(* The nets explored.  Each is what a construction function (such as       *)
(* createTaskWorkflow) leaves behind: the result of addPlace,              *)
(* addTransition and addArc calls on a new ColoredPetriNet.                *)
(***************************************************************************)
Place(id, name) == [id |-> id, name |-> name, tokens |-> <<>>]

Transition(id, name, guard, handler) ==
  [id |-> id, name |-> name, guard |-> guard, handler |-> handler]

Arc(id, source, target, weight, pattern, expression) ==
  [id |-> id, source |-> source, target |-> target, weight |-> weight,
   pattern |-> pattern, expression |-> expression]

RECURSIVE construct(_, _, _)
construct(net, calls, i) ==
  IF i > Len(calls) THEN net
  ELSE LET next == CASE calls[i].op = "addPlace" -> addPlace(net, calls[i].arg)
                     [] calls[i].op = "addTransition" -> addTransition(net, calls[i].arg)
                     [] calls[i].op = "addArc" -> addArc(net, calls[i].arg)
       IN  construct(next, calls, i + 1)

NameVerbNoun == <<"d", "o", ":", "i", "t">>
NameVerbNounVerb == <<"d", "o", ":", "i", "t", ":", "x">>
NamePlain == <<"g", "o">>
NameFourSegments == <<"a", ":", "b", ":", "c", ":", "d">>

TwoPlaces ==
  <<[op |-> "addPlace", arg |-> Place("p", "P")],
    [op |-> "addPlace", arg |-> Place("q", "Q")]>>

\* p -> t -> q -> u -> p : t has a handler, u has none
CycleNet ==
  construct(EmptyNet, TwoPlaces \o
    <<[op |-> "addTransition", arg |-> Transition("t", NameVerbNoun, "none", "done")],
      [op |-> "addTransition", arg |-> Transition("u", NameVerbNounVerb, "none", "none")],
      [op |-> "addArc", arg |-> Arc("a1", "p", "t", 0, "none", "none")],
      [op |-> "addArc", arg |-> Arc("a2", "t", "q", 0, "none", "identity")],
      [op |-> "addArc", arg |-> Arc("a3", "q", "u", 0, "none", "none")],
      [op |-> "addArc", arg |-> Arc("a4", "u", "p", 0, "none", "none")]>>, 1)

\* two input arcs of t read the same place p
SharedPlaceNet ==
  construct(EmptyNet, TwoPlaces \o
    <<[op |-> "addTransition", arg |-> Transition("t", NameVerbNoun, "none", "echo")],
      [op |-> "addArc", arg |-> Arc("a1", "p", "t", 0, "isA", "none")],
      [op |-> "addArc", arg |-> Arc("a2", "p", "t", 0, "none", "none")],
      [op |-> "addArc", arg |-> Arc("a3", "t", "q", 0, "none", "stamp")]>>, 1)

\* the input arc of t has weight 2
WeightedNet ==
  construct(EmptyNet, TwoPlaces \o
    <<[op |-> "addTransition", arg |-> Transition("t", NameVerbNounVerb, "none", "none")],
      [op |-> "addArc", arg |-> Arc("a1", "p", "t", 2, "none", "none")],
      [op |-> "addArc", arg |-> Arc("a2", "t", "q", 1, "none", "stamp")]>>, 1)

\* t fires only on a token of color b; the guard of u never holds
GuardedNet ==
  construct(EmptyNet, TwoPlaces \o
    <<[op |-> "addTransition", arg |-> Transition("t", NameVerbNoun, "pIsB", "done")],
      [op |-> "addTransition", arg |-> Transition("u", NameVerbNoun, "never", "done")],
      [op |-> "addArc", arg |-> Arc("a1", "p", "t", 0, "none", "none")],
      [op |-> "addArc", arg |-> Arc("a2", "t", "q", 0, "none", "none")],
      [op |-> "addArc", arg |-> Arc("a3", "p", "u", 0, "none", "none")],
      [op |-> "addArc", arg |-> Arc("a4", "u", "q", 0, "none", "none")]>>, 1)

\* t, u and w all read p: t is declared first, u has the name of three segments
\* and a guard that accepts only a token of color b, w is declared last
RankedNet ==
  construct(EmptyNet, TwoPlaces \o
    <<[op |-> "addTransition", arg |-> Transition("t", NameVerbNoun, "none", "done")],
      [op |-> "addTransition", arg |-> Transition("u", NameVerbNounVerb, "pIsB", "none")],
      [op |-> "addTransition", arg |-> Transition("w", NameVerbNoun, "none", "none")],
      [op |-> "addArc", arg |-> Arc("a1", "p", "t", 0, "none", "none")],
      [op |-> "addArc", arg |-> Arc("a2", "t", "q", 0, "none", "stamp")],
      [op |-> "addArc", arg |-> Arc("a3", "p", "u", 0, "none", "none")],
      [op |-> "addArc", arg |-> Arc("a4", "u", "q", 0, "none", "none")],
      [op |-> "addArc", arg |-> Arc("a5", "p", "w", 0, "none", "none")]>>, 1)

Nets == {CycleNet, SharedPlaceNet, WeightedNet, GuardedNet, RankedNet}

\* the arguments the callers pass
CallPlaceIds == {"p", "q", "nowhere"}
CallTransitionIds == {"t", "u", "missing"}
SuppliedBindings == {[p_token |-> ColorB], [query |-> ColorA]}
CallBindings == {<<>>} \cup {<<b>> : b \in SuppliedBindings}

(***************************************************************************)
(* WorkflowLogger.  Times are in minutes (the code counts milliseconds and *)
(* multiplies sessionTimeoutMinutes by 60 * 1000); activeSessions is the   *)
(* sequence of its values in insertion order.  A session id is made of the *)
(* date, the time and a random suffix; it is modelled as the number of ids *)
(* generated so far.                                                       *)
(***************************************************************************)
\* a window that still includes a session idle for exactly the timeout
withinWindowInclusive(now, session, timeoutMs) ==
  now - session.lastActivity <= timeoutMs

\* now - session.lastActivity < timeoutMs
withinWindow(now, session, timeoutMs) ==
  now - session.lastActivity < timeoutMs

\* the loop over activeSessions.entries(): the index of the first session
\* within its timeout window, 0 if there is none
RECURSIVE findSession(_, _, _, _)
findSession(sessions, now, timeoutMs, i) ==
  IF i > Len(sessions) THEN 0
  ELSE IF withinWindow(now, sessions[i], timeoutMs) THEN i
  ELSE findSession(sessions, now, timeoutMs, i + 1)

generateSessionId(generated) == generated + 1

getOrCreateSession(lg) ==
  LET i == findSession(lg.sessions, lg.now, lg.timeout, 1)
      session == [sessionId |-> generateSessionId(lg.generated),
                  startTime |-> lg.now, lastActivity |-> lg.now,
                  toolCallCount |-> 0]
  IN  IF i # 0
        THEN [sessions |-> [lg.sessions EXCEPT ![i].lastActivity = lg.now],
              index |-> i, generated |-> lg.generated]
        ELSE [sessions |-> Append(lg.sessions, session),
              index |-> Len(lg.sessions) + 1,
              generated |-> generateSessionId(lg.generated)]

\* logToolCall up to the write of the log entry: the session with its
\* counter incremented, and the entry to write
logToolCall(lg) ==
  LET got == getOrCreateSession(lg)
      sessions == [got.sessions EXCEPT ![got.index].toolCallCount = @ + 1]
  IN  [sessions |-> sessions, generated |-> got.generated,
       event |-> [timestamp |-> lg.now, sessionId |-> sessions[got.index].sessionId]]

\* the callback of startSessionCleanup: delete the sessions idle for more
\* than the timeout
RECURSIVE sessionCleanup(_, _, _, _)
sessionCleanup(sessions, now, timeoutMs, i) ==
  IF i > Len(sessions) THEN <<>>
  ELSE (IF now - sessions[i].lastActivity > timeoutMs THEN <<>> ELSE <<sessions[i]>>)
       \o sessionCleanup(sessions, now, timeoutMs, i + 1)

NoCall == [op |-> "", pre |-> <<>>, now |-> 0, event |-> <<>>]

\* a logger that is not in use
NoLogger ==
  [enabled |-> FALSE, timeout |-> 0, now |-> 0, sessions |-> <<>>, generated |-> 0,
   log |-> <<>>, calls |-> 0, last |-> NoCall]

\* new WorkflowLogger(config)
WorkflowLogger(enabled, sessionTimeoutMinutes) ==
  [enabled |-> enabled, timeout |-> sessionTimeoutMinutes, now |-> 0,
   sessions |-> <<>>, generated |-> 0, log |-> <<>>, calls |-> 0, last |-> NoCall]

(***************************************************************************)
(* State.  `inflight` holds the fireTransition calls suspended at their    *)
(* handler.  `last` (what the latest operation did, with the marking it    *)
(* started from) and `ledger` (how many tokens were seeded, and consumed   *)
(* and produced by completed firings) are history variables: the code      *)
(* keeps neither.                                                          *)
(***************************************************************************)
NoOperation ==
  [op |-> "none", transitionId |-> "", placeId |-> "", sel |-> <<>>,
   outcome |-> "", pre |-> <<>>, preCounter |-> 0,
   callPre |-> <<>>, callPreCounter |-> 0, undisturbed |-> TRUE,
   bindings |-> <<>>, binding |-> <<>>, removed |-> <<>>, minted |-> <<>>,
   hints |-> <<>>, handlerCalls |-> 0, result |-> <<>>, concurrent |-> 0,
   color |-> <<>>, returned |-> <<>>,
   arg |-> <<>>, preTransitions |-> <<>>, preArcs |-> <<>>, hint |-> <<>>,
   preIds |-> {}]

Init ==
  /\ \E net \in Nets :
       /\ places = net.places
       /\ transitions = net.transitions
       /\ arcs = net.arcs
  /\ tokenCounter = 0
  /\ inflight = <<>>
  /\ last = NoOperation
  /\ logger = NoLogger
  /\ ledger = [seeded |-> 0, consumed |-> 0, produced |-> 0,
              ids |-> 1..tokenCounter]

\* tokens the suspended calls will mint when their handlers resolve
RECURSIVE SumWeights(_, _)
SumWeights(as, k) ==
  IF k > Len(as) THEN 0 ELSE Weight(as[k]) + SumWeights(as, k + 1)

\* the ids of the tokens a firing minted
MintedIds(minted) == {minted[i].id : i \in 1..Len(minted)}

OutputCount(transitionId) == SumWeights(getOutputArcs(arcs, transitionId), 1)

RECURSIVE Reserved(_, _)
Reserved(calls, k) ==
  IF k > Len(calls) THEN 0
  ELSE OutputCount(calls[k].transitionId) + Reserved(calls, k + 1)

\* every suspended call notes whether some other operation changed the marking
Disturb(calls, changed) ==
  [k \in 1..Len(calls) |->
     [calls[k] EXCEPT !.undisturbed = calls[k].undisturbed /\ ~changed]]


(***************************************************************************)
(* Operations.                                                             *)
(***************************************************************************)
\* net.addToken(placeId, color), called from outside a firing
AddToken(placeId, color) ==
  /\ tokenCounter + Reserved(inflight, 1) < MaxTokens
  /\ \E r \in {addToken(places, tokenCounter, placeId, color)} :
       /\ places' = r.places
       /\ tokenCounter' = r.tokenCounter
       /\ inflight' = Disturb(inflight, r.ok)
       /\ ledger' = IF r.ok
                      THEN [ledger EXCEPT !.seeded = @ + 1,
                                          !.ids = @ \cup Range(r.tokenId)]
                      ELSE ledger
       /\ last' = [NoOperation EXCEPT
                     !.op = "addToken", !.placeId = placeId,
                     !.color = <<color>>, !.returned = r.tokenId,
                     !.outcome = IF r.ok THEN "Done" ELSE "PlaceNotFound",
                     !.pre = places, !.preCounter = tokenCounter,
                     !.preIds = ledger.ids,
                     !.concurrent = Len(inflight)]
  /\ UNCHANGED <<logger, transitions, arcs>>

\* net.fireTransition(transitionId, selectedBinding) up to its first await,
\* or to its end when the transition has no handler
FireTransition(transitionId, sel) ==
  \E r \in {fireStart(places, transitions, arcs, tokenCounter, transitionId, sel)} :
  LET call == [transitionId |-> transitionId,
               transition |-> getTransition(transitions, transitionId)[1],
               sel |-> sel, binding |-> r.binding[1], removed |-> r.removed,
               handlerCalls |-> r.handlerCalls,
               callPre |-> places, callPreCounter |-> tokenCounter,
               undisturbed |-> TRUE]
  IN
  /\ r.outcome = "Suspended" => Len(inflight) < MaxInFlight
  /\ r.outcome \in {"Suspended", "Done", "PlaceNotFound"} =>
       tokenCounter + Reserved(inflight, 1) + OutputCount(transitionId) <= MaxTokens
  /\ places' = r.places
  /\ tokenCounter' = r.tokenCounter
  /\ inflight' = IF r.outcome = "Suspended"
                   THEN Append(Disturb(inflight, r.places # places), call)
                   ELSE Disturb(inflight, r.places # places)
  /\ ledger' = IF r.outcome = "Done"
                 THEN [ledger EXCEPT !.consumed = @ + Len(r.removed),
                                     !.produced = @ + Len(r.minted),
                                     !.ids = @ \cup MintedIds(r.minted)]
                 ELSE [ledger EXCEPT !.ids = @ \cup MintedIds(r.minted)]
  /\ last' = [NoOperation EXCEPT
                !.op = "fire", !.transitionId = transitionId, !.sel = sel,
                !.outcome = r.outcome,
                !.pre = places, !.preCounter = tokenCounter,
                !.callPre = places, !.callPreCounter = tokenCounter,
                !.bindings = r.bindings, !.binding = r.binding,
                !.removed = r.removed, !.minted = r.minted, !.hints = r.hints,
                !.handlerCalls = r.handlerCalls, !.result = r.result,
                !.preIds = ledger.ids,
                !.concurrent = Len(inflight)]
  /\ UNCHANGED <<logger, transitions, arcs>>

\* the fireTransition that integrateContextualHints installs: the original
\* call, and in its catch block, for a TransitionNotEnabledError, the message
\* replaced by the text of generateContextualHint before the error is thrown
\* again; an error thrown inside the catch block replaces the caught one
wrappedFireStart(pl, trs, as, counter, transitionId, sel) ==
  LET original == fireStart(pl, trs, as, counter, transitionId, sel)
      hint == generateContextualHint(pl, trs, as, transitionId)
  IN  IF original.outcome \in {"NotEnabled", "GuardFailed"}
        THEN IF hint.outcome = "RangeError"
               THEN [original EXCEPT !.outcome = "RangeError", !.hints = <<>>]
                    @@ [hint |-> <<>>]
               ELSE original @@ [hint |-> <<hint>>]
        ELSE original @@ [hint |-> <<>>]

WrappedFireTransition(transitionId, sel) ==
  \E r \in {wrappedFireStart(places, transitions, arcs, tokenCounter, transitionId, sel)} :
  LET call == [transitionId |-> transitionId,
               transition |-> getTransition(transitions, transitionId)[1],
               sel |-> sel, binding |-> r.binding[1], removed |-> r.removed,
               handlerCalls |-> r.handlerCalls,
               callPre |-> places, callPreCounter |-> tokenCounter,
               undisturbed |-> TRUE]
  IN
  /\ r.outcome = "Suspended" => Len(inflight) < MaxInFlight
  /\ r.outcome \in {"Suspended", "Done", "PlaceNotFound"} =>
       tokenCounter + Reserved(inflight, 1) + OutputCount(transitionId) <= MaxTokens
  /\ places' = r.places
  /\ tokenCounter' = r.tokenCounter
  /\ inflight' = IF r.outcome = "Suspended"
                   THEN Append(Disturb(inflight, r.places # places), call)
                   ELSE Disturb(inflight, r.places # places)
  /\ ledger' = IF r.outcome = "Done"
                 THEN [ledger EXCEPT !.consumed = @ + Len(r.removed),
                                     !.produced = @ + Len(r.minted),
                                     !.ids = @ \cup MintedIds(r.minted)]
                 ELSE [ledger EXCEPT !.ids = @ \cup MintedIds(r.minted)]
  /\ last' = [NoOperation EXCEPT
                !.op = "wrappedFire", !.hint = r.hint, !.transitionId = transitionId, !.sel = sel,
                !.outcome = r.outcome,
                !.pre = places, !.preCounter = tokenCounter,
                !.callPre = places, !.callPreCounter = tokenCounter,
                !.bindings = r.bindings, !.binding = r.binding,
                !.removed = r.removed, !.minted = r.minted, !.hints = r.hints,
                !.handlerCalls = r.handlerCalls, !.result = r.result,
                !.preIds = ledger.ids,
                !.concurrent = Len(inflight)]
  /\ UNCHANGED <<logger, transitions, arcs>>

(***************************************************************************)
(* Construction and inspection at run time.  addPlace, addTransition and   *)
(* addArc are public and may be called on a net in use.  getState returns  *)
(* a new `places` array holding the net's own Place objects (so each       *)
(* place.tokens is the net's array) and the net's own `arcs` array: a      *)
(* caller that writes to what it was given writes to the net where the     *)
(* object is shared and to its own copy where it is not.                   *)
(***************************************************************************)
\* the latest operation, for an operation on the structure or the snapshot
Structural(op, arg) ==
  [NoOperation EXCEPT
     !.op = op, !.arg = arg, !.outcome = "Done",
     !.pre = places, !.preCounter = tokenCounter,
     !.preTransitions = transitions, !.preArcs = arcs,
     !.concurrent = Len(inflight)]

\* net.addPlace(place)
AddPlace(place) ==
  /\ \E net \in {addPlace(getState(places, transitions, arcs), place)} :
       /\ places' = net.places
       /\ inflight' = Disturb(inflight, net.places # places)
  /\ last' = Structural("addPlace", <<place>>)
  /\ UNCHANGED <<logger, transitions, arcs, tokenCounter, ledger>>

\* net.addTransition(transition)
AddTransition(transition) ==
  /\ \E net \in {addTransition(getState(places, transitions, arcs), transition)} :
       transitions' = net.transitions
  /\ last' = Structural("addTransition", <<transition>>)
  /\ UNCHANGED <<logger, places, arcs, tokenCounter, inflight, ledger>>

\* net.addArc(arc)
AddArc(arc) ==
  /\ Len(arcs) < MaxArcs
  /\ \E net \in {addArc(getState(places, transitions, arcs), arc)} :
       arcs' = net.arcs
  /\ last' = Structural("addArc", <<arc>>)
  /\ UNCHANGED <<logger, places, transitions, tokenCounter, inflight, ledger>>

\* Array.prototype.pop()
pop(s) == IF Len(s) = 0 THEN s ELSE SubSeq(s, 1, Len(s) - 1)

\* net.getState().places.pop(): the array is the caller's own copy
SnapshotPlacesPop ==
  /\ last' = Structural("snapshot.places.pop", <<>>)
  /\ UNCHANGED <<logger, places, transitions, arcs, tokenCounter, inflight, ledger>>

\* net.getState().places.find(p => p.id === placeId).tokens.pop(): the Place
\* object, and with it the tokens array, is the net's
SnapshotTokensPop(placeId) ==
  /\ MapHas(places, placeId)
  /\ LET place == MapGet(getState(places, transitions, arcs).places, placeId) IN
       /\ places' = MapSet(places, [place EXCEPT !.tokens = pop(place.tokens)])
       /\ inflight' = Disturb(inflight, Len(place.tokens) > 0)
  /\ last' = Structural("snapshot.tokens.pop", <<placeId>>)
  /\ UNCHANGED <<logger, transitions, arcs, tokenCounter, ledger>>

\* net.getState().arcs.pop(): the array is the net's
SnapshotArcsPop ==
  /\ arcs' = pop(getState(places, transitions, arcs).arcs)
  /\ last' = Structural("snapshot.arcs.pop", <<>>)
  /\ UNCHANGED <<logger, places, transitions, tokenCounter, inflight, ledger>>

\* net.getEnabledTransitions(), called from outside a firing
GetEnabledTransitions ==
  /\ last' = [NoOperation EXCEPT
                !.op = "getEnabledTransitions", !.outcome = "Done",
                !.pre = places, !.preCounter = tokenCounter,
                !.hints = getEnabledTransitions(places, transitions, arcs),
                !.concurrent = Len(inflight)]
  /\ UNCHANGED <<logger, places, transitions, arcs, tokenCounter, inflight, ledger>>

\* generateContextualHint(net, desiredTransitionId)
GenerateContextualHint(desiredTransitionId) ==
  /\ \E hint \in {generateContextualHint(places, transitions, arcs, desiredTransitionId)} :
       last' = [NoOperation EXCEPT
                  !.op = "generateContextualHint",
                  !.transitionId = desiredTransitionId,
                  !.outcome = hint.outcome,
                  !.pre = places, !.preCounter = tokenCounter,
                  !.hint = <<hint>>,
                  !.concurrent = Len(inflight)]
  /\ UNCHANGED <<logger, places, transitions, arcs, tokenCounter, inflight, ledger>>

Without(calls, k) == [j \in 1..(Len(calls) - 1) |-> IF j < k THEN calls[j] ELSE calls[j + 1]]

\* the handler's promise of the k-th suspended call resolves: the call
\* resumes after the await and runs the output loops
HandlerResolve(k) ==
  /\ k \in 1..Len(inflight)
  /\ ~HandlerThrows(inflight[k].transition, inflight[k].binding)
  /\ LET call == inflight[k]
         result == HandlerValue(call.transition, call.binding)
     IN
     \E out \in {produceOutputTokens(places, tokenCounter,
                                     getOutputArcs(arcs, call.transitionId), result)} :
       /\ out.tokenCounter <= MaxTokens
       /\ places' = out.places
       /\ tokenCounter' = out.tokenCounter
       /\ inflight' = Disturb(Without(inflight, k), out.places # places)
       /\ ledger' = IF out.ok
                      THEN [ledger EXCEPT !.consumed = @ + Len(call.removed),
                                          !.produced = @ + Len(out.minted),
                                          !.ids = @ \cup MintedIds(out.minted)]
                      ELSE [ledger EXCEPT !.ids = @ \cup MintedIds(out.minted)]
       /\ last' = [NoOperation EXCEPT
                     !.op = "resolve", !.transitionId = call.transitionId,
                     !.sel = call.sel,
                     !.outcome = IF out.ok THEN "Done" ELSE "PlaceNotFound",
                     !.pre = places, !.preCounter = tokenCounter,
                     !.callPre = call.callPre, !.callPreCounter = call.callPreCounter,
                     !.undisturbed = call.undisturbed,
                     !.binding = <<call.binding>>,
                     !.removed = call.removed, !.minted = out.minted,
                     !.handlerCalls = call.handlerCalls, !.result = <<result>>,
                     !.preIds = ledger.ids,
                     !.concurrent = Len(inflight) - 1]
  /\ UNCHANGED <<logger, transitions, arcs>>

\* the handler's promise of the k-th suspended call rejects: the await
\* throws and fireTransition's own promise rejects with the same error
HandlerReject(k) ==
  /\ k \in 1..Len(inflight)
  /\ HandlerMayReject(inflight[k].transition, inflight[k].binding)
  /\ LET call == inflight[k] IN
       /\ inflight' = Without(inflight, k)
       /\ last' = [NoOperation EXCEPT
                     !.op = "reject", !.transitionId = call.transitionId,
                     !.sel = call.sel,
                     !.outcome = "HandlerError",
                     !.pre = places, !.preCounter = tokenCounter,
                     !.callPre = call.callPre, !.callPreCounter = call.callPreCounter,
                     !.undisturbed = call.undisturbed,
                     !.binding = <<call.binding>>,
                     !.removed = call.removed,
                     !.handlerCalls = call.handlerCalls,
                     !.concurrent = Len(inflight) - 1]
  /\ UNCHANGED <<logger, places, transitions, arcs, tokenCounter, ledger>>

Next ==
  \/ \E placeId \in CallPlaceIds, color \in SeedColors : AddToken(placeId, color)
  \/ \E transitionId \in CallTransitionIds, sel \in CallBindings :
       FireTransition(transitionId, sel)
  \/ \E k \in 1..MaxInFlight : HandlerResolve(k)
  \/ \E k \in 1..MaxInFlight : HandlerReject(k)

Spec == Init /\ [][Next]_vars

(***************************************************************************)
(* The net built and inspected while in use: it starts as                  *)
(* `new ColoredPetriNet()` and every public method may be called.          *)
(***************************************************************************)
OpenPlaces == {Place("p", "P")}
OpenTransitions ==
  {Transition("t", NameVerbNoun, guard, "none") : guard \in {"none", "never"}}
\* an input arc and an output arc of t, an arc from an unregistered place, and
\* an arc from a place to a place
OpenArcs ==
  {Arc("a1", "p", "t", 0, "none", "none"), Arc("a1", "t", "p", 0, "none", "none"),
   Arc("a1", "nowhere", "t", 0, "none", "none"), Arc("a1", "p", "p", 0, "none", "none")}
OpenColors == {ColorA}
OpenPlaceIds == {"p", "nowhere"}
OpenTransitionIds == {"t", "missing"}

InitOpen ==
  /\ places = EmptyNet.places
  /\ transitions = EmptyNet.transitions
  /\ arcs = EmptyNet.arcs
  /\ tokenCounter = 0
  /\ inflight = <<>>
  /\ last = NoOperation
  /\ logger = NoLogger
  /\ ledger = [seeded |-> 0, consumed |-> 0, produced |-> 0,
              ids |-> 1..tokenCounter]

NextOpen ==
  \/ \E place \in OpenPlaces : AddPlace(place)
  \/ \E transition \in OpenTransitions : AddTransition(transition)
  \/ \E arc \in OpenArcs : AddArc(arc)
  \/ \E placeId \in OpenPlaceIds, color \in OpenColors : AddToken(placeId, color)
  \/ \E transitionId \in OpenTransitionIds, sel \in CallBindings :
       FireTransition(transitionId, sel)
  \/ SnapshotPlacesPop
  \/ \E placeId \in OpenPlaceIds : SnapshotTokensPop(placeId)
  \/ SnapshotArcsPop

SpecOpen == InitOpen /\ [][NextOpen]_vars

(***************************************************************************)
(* Contextual hints asked for while the net is in use.                     *)
(***************************************************************************)
\* t and u both move a token from start to q, w reads q; the place start has
\* an entry in placeDescriptions, the place q has an empty name
DiamondNet ==
  construct(EmptyNet,
    <<[op |-> "addPlace", arg |-> Place("start", "Start")],
      [op |-> "addPlace", arg |-> Place("q", "")],
      [op |-> "addTransition", arg |-> Transition("t", NameVerbNoun, "none", "none")],
      [op |-> "addTransition", arg |-> Transition("u", NamePlain, "none", "none")],
      [op |-> "addTransition", arg |-> Transition("w", NameVerbNounVerb, "none", "none")],
      [op |-> "addArc", arg |-> Arc("a1", "start", "t", 0, "none", "none")],
      [op |-> "addArc", arg |-> Arc("a2", "t", "q", 0, "none", "none")],
      [op |-> "addArc", arg |-> Arc("a3", "start", "u", 0, "none", "none")],
      [op |-> "addArc", arg |-> Arc("a4", "u", "q", 0, "none", "none")],
      [op |-> "addArc", arg |-> Arc("a5", "q", "w", 0, "none", "none")]>>, 1)

HintNets == {CycleNet, SharedPlaceNet, WeightedNet, DiamondNet}
HintPlaceIds == {"p", "q", "start"}
HintTransitionIds == {"t", "u", "w", "missing"}

InitHint ==
  /\ \E net \in HintNets :
       /\ places = net.places
       /\ transitions = net.transitions
       /\ arcs = net.arcs
  /\ tokenCounter = 0
  /\ inflight = <<>>
  /\ last = NoOperation
  /\ logger = NoLogger
  /\ ledger = [seeded |-> 0, consumed |-> 0, produced |-> 0,
              ids |-> 1..tokenCounter]

NextHint ==
  \/ \E placeId \in HintPlaceIds, color \in SeedColors : AddToken(placeId, color)
  \/ \E transitionId \in HintTransitionIds : FireTransition(transitionId, <<>>)
  \/ \E k \in 1..MaxInFlight : HandlerResolve(k)
  \/ \E k \in 1..MaxInFlight : HandlerReject(k)
  \/ \E transitionId \in HintTransitionIds : GenerateContextualHint(transitionId)
  \/ \E transitionId \in HintTransitionIds : WrappedFireTransition(transitionId, <<>>)

SpecHint == InitHint /\ [][NextHint]_vars

(***************************************************************************)
(* A net with transitions that have no input arcs: s has no guard, g a     *)
(* guard that rejects everything, e a guard that accepts the empty binding *)
(* only; t reads p.                                                        *)
(***************************************************************************)
SourceNet ==
  construct(EmptyNet, TwoPlaces \o
    <<[op |-> "addTransition", arg |-> Transition("s", NameVerbNoun, "none", "none")],
      [op |-> "addTransition", arg |-> Transition("g", NameVerbNoun, "never", "done")],
      [op |-> "addTransition", arg |-> Transition("e", NameVerbNounVerb, "isEmpty", "done")],
      [op |-> "addTransition", arg |-> Transition("t", NamePlain, "none", "none")],
      [op |-> "addArc", arg |-> Arc("a1", "s", "q", 0, "none", "none")],
      [op |-> "addArc", arg |-> Arc("a2", "g", "q", 0, "none", "none")],
      [op |-> "addArc", arg |-> Arc("a3", "e", "p", 0, "none", "stamp")],
      [op |-> "addArc", arg |-> Arc("a4", "p", "t", 0, "none", "none")]>>, 1)

SourcePlaceIds == {"p", "q"}
SourceTransitionIds == {"s", "g", "e", "t"}

InitSource ==
  /\ places = SourceNet.places
  /\ transitions = SourceNet.transitions
  /\ arcs = SourceNet.arcs
  /\ tokenCounter = 0
  /\ inflight = <<>>
  /\ last = NoOperation
  /\ logger = NoLogger
  /\ ledger = [seeded |-> 0, consumed |-> 0, produced |-> 0,
              ids |-> 1..tokenCounter]

NextSource ==
  \/ \E placeId \in SourcePlaceIds, color \in SeedColors : AddToken(placeId, color)
  \/ \E transitionId \in SourceTransitionIds : FireTransition(transitionId, <<>>)
  \/ \E k \in 1..MaxInFlight : HandlerResolve(k)
  \/ \E k \in 1..MaxInFlight : HandlerReject(k)
  \/ GetEnabledTransitions

SpecSource == InitSource /\ [][NextSource]_vars

(***************************************************************************)
(* A net with output arcs whose target place was never registered (addArc  *)
(* accepts them): t, with a handler, writes to q and then to the missing   *)
(* place; u, without a handler, writes to the missing place only.          *)
(***************************************************************************)
DanglingNet ==
  construct(EmptyNet, TwoPlaces \o
    <<[op |-> "addTransition", arg |-> Transition("t", NameVerbNoun, "none", "done")],
      [op |-> "addTransition", arg |-> Transition("u", NamePlain, "none", "none")],
      [op |-> "addArc", arg |-> Arc("a1", "p", "t", 0, "none", "none")],
      [op |-> "addArc", arg |-> Arc("a2", "t", "q", 0, "none", "none")],
      [op |-> "addArc", arg |-> Arc("a3", "t", "nowhere", 0, "none", "none")],
      [op |-> "addArc", arg |-> Arc("a4", "p", "u", 0, "none", "none")],
      [op |-> "addArc", arg |-> Arc("a5", "u", "nowhere", 0, "none", "none")]>>, 1)

InitDangling ==
  /\ places = DanglingNet.places
  /\ transitions = DanglingNet.transitions
  /\ arcs = DanglingNet.arcs
  /\ tokenCounter = 0
  /\ inflight = <<>>
  /\ last = NoOperation
  /\ logger = NoLogger
  /\ ledger = [seeded |-> 0, consumed |-> 0, produced |-> 0,
              ids |-> 1..tokenCounter]

NextDangling ==
  \/ \E placeId \in CallPlaceIds, color \in SeedColors : AddToken(placeId, color)
  \/ \E transitionId \in CallTransitionIds : FireTransition(transitionId, <<>>)
  \/ \E k \in 1..MaxInFlight : HandlerResolve(k)
  \/ \E k \in 1..MaxInFlight : HandlerReject(k)

SpecDangling == InitDangling /\ [][NextDangling]_vars

(***************************************************************************)
(* The workflow logger on its own: tool calls are logged while time        *)
(* passes and the cleanup timer fires.  fs.appendFile may fail; the        *)
(* failure is caught and the entry is lost.                                *)
(***************************************************************************)
netVars == <<places, transitions, arcs, tokenCounter, inflight, last, ledger>>

SessionTimeouts == {0, 1, 2}

InitLogger ==
  /\ places = EmptyNet.places
  /\ transitions = EmptyNet.transitions
  /\ arcs = EmptyNet.arcs
  /\ tokenCounter = 0
  /\ inflight = <<>>
  /\ last = NoOperation
  /\ ledger = [seeded |-> 0, consumed |-> 0, produced |-> 0,
              ids |-> 1..tokenCounter]
  /\ \E enabled \in BOOLEAN, sessionTimeoutMinutes \in SessionTimeouts :
       logger = WorkflowLogger(enabled, sessionTimeoutMinutes)

\* a minute passes
Tick ==
  /\ logger.now < MaxClock
  /\ logger' = [logger EXCEPT !.now = @ + 1, !.last = NoCall]
  /\ UNCHANGED netVars

LogToolCall ==
  /\ logger.calls < MaxCalls
  /\ IF ~logger.enabled
       THEN logger' = [logger EXCEPT !.calls = @ + 1,
                                     !.last = [NoCall EXCEPT !.op = "logToolCall",
                                                            !.now = logger.now]]
       ELSE \E r \in {logToolCall(logger)}, written \in BOOLEAN :
              logger' = [logger EXCEPT
                           !.sessions = r.sessions,
                           !.generated = r.generated,
                           !.calls = @ + 1,
                           !.log = IF written THEN Append(@, r.event) ELSE @,
                           !.last = [op |-> "logToolCall", pre |-> logger.sessions,
                                     now |-> logger.now, event |-> <<r.event>>]]
  /\ UNCHANGED netVars

SessionCleanup ==
  /\ logger.enabled
  /\ logger' = [logger EXCEPT
                  !.sessions = sessionCleanup(@, logger.now, logger.timeout, 1),
                  !.last = [NoCall EXCEPT !.op = "sessionCleanup",
                                          !.pre = logger.sessions,
                                          !.now = logger.now]]
  /\ UNCHANGED netVars

NextLogger == Tick \/ LogToolCall \/ SessionCleanup

SpecLogger == InitLogger /\ [][NextLogger]_vars

(***************************************************************************)
(* The file-operations workflow: the net of createFileOperationsNet with   *)
(* one token seeded in start, and the calls of demonstrateFileWorkflow     *)
(* in any order.                                                           *)
(***************************************************************************)
NameSearchFiles == <<"s", "e", "a", "r", "c", "h", ":", "f", "i", "l", "e", "s">>
NameReadFile == <<"r", "e", "a", "d", ":", "f", "i", "l", "e">>
NameWriteFile == <<"w", "r", "i", "t", "e", ":", "f", "i", "l", "e">>
NameSearchFileRead ==
  <<"s", "e", "a", "r", "c", "h", ":", "f", "i", "l", "e", ":", "r", "e", "a", "d">>
NameModifyFileWrite ==
  <<"m", "o", "d", "i", "f", "y", ":", "f", "i", "l", "e", ":", "w", "r", "i", "t", "e">>

createFileOperationsNet ==
  construct(EmptyNet,
    <<[op |-> "addPlace", arg |-> Place("start", "Start")],
      [op |-> "addPlace", arg |-> Place("file_found", "File Found")],
      [op |-> "addPlace", arg |-> Place("file_read", "File Read")],
      [op |-> "addPlace", arg |-> Place("search_results", "Search Results")],
      [op |-> "addPlace", arg |-> Place("file_written", "File Written")],
      [op |-> "addPlace", arg |-> Place("error_state", "Error State")],
      [op |-> "addTransition",
       arg |-> Transition("search_files", NameSearchFiles, "none", "searchFiles")],
      [op |-> "addTransition",
       arg |-> Transition("read_file", NameReadFile, "none", "readFile")],
      [op |-> "addTransition",
       arg |-> Transition("write_file", NameWriteFile, "none", "writeFile")],
      [op |-> "addTransition",
       arg |-> Transition("search_read", NameSearchFileRead, "none", "searchRead")],
      [op |-> "addTransition",
       arg |-> Transition("modify_write", NameModifyFileWrite, "hasContent",
                          "modifyWrite")],
      [op |-> "addArc",
       arg |-> Arc("start_to_search", "start", "search_files", 0, "none", "none")],
      [op |-> "addArc",
       arg |-> Arc("search_to_results", "search_files", "search_results", 0, "none",
                   "identity")],
      [op |-> "addArc",
       arg |-> Arc("results_to_search_read", "search_results", "search_read", 0,
                   "hasResults", "none")],
      [op |-> "addArc",
       arg |-> Arc("search_read_to_file_read", "search_read", "file_read", 0, "none",
                   "none")],
      [op |-> "addArc",
       arg |-> Arc("found_to_read", "file_found", "read_file", 0, "none", "none")],
      [op |-> "addArc",
       arg |-> Arc("read_to_content", "read_file", "file_read", 0, "none", "none")],
      [op |-> "addArc",
       arg |-> Arc("content_to_modify", "file_read", "modify_write", 0, "none", "none")],
      [op |-> "addArc",
       arg |-> Arc("content_to_write", "file_read", "write_file", 0, "none", "none")],
      [op |-> "addArc",
       arg |-> Arc("write_to_written", "write_file", "file_written", 0, "none", "none")],
      [op |-> "addArc",
       arg |-> Arc("modify_to_written", "modify_write", "file_written", 0, "none",
                   "none")]>>, 1)

\* the transitions demonstrateFileWorkflow and its callers fire
FileTransitionIds ==
  {"search_files", "read_file", "write_file", "search_read", "modify_write"}

\* fireTransition('search_files', { query: '*.ts' })
SearchQuery == [query |-> "*.ts"]

\* tokens a caller adds besides the seed: an empty context, a located file
FilePlaceIds == {"start", "file_found"}
FileColors == {EmptyObject, [path |-> "notes.md"]}

\* createFileOperationsNet() followed by net.addToken('start', {})
InitFile ==
  /\ \E seeded \in {addToken(createFileOperationsNet.places, 0, "start", EmptyObject)} :
       /\ places = seeded.places
       /\ tokenCounter = seeded.tokenCounter
  /\ transitions = createFileOperationsNet.transitions
  /\ arcs = createFileOperationsNet.arcs
  /\ inflight = <<>>
  /\ last = NoOperation
  /\ logger = NoLogger
  /\ ledger = [seeded |-> 1, consumed |-> 0, produced |-> 0,
              ids |-> 1..tokenCounter]

NextFile ==
  \/ \E transitionId \in FileTransitionIds : FireTransition(transitionId, <<>>)
  \/ FireTransition("search_files", <<SearchQuery>>)
  \/ \E placeId \in FilePlaceIds, color \in FileColors : AddToken(placeId, color)
  \/ \E k \in 1..MaxInFlight : HandlerResolve(k)
  \/ \E k \in 1..MaxInFlight : HandlerReject(k)
  \/ GetEnabledTransitions

SpecFile == InitFile /\ [][NextFile]_vars

(***************************************************************************)
(* getEnabledTransitions on nets whose transition t reads n places, each   *)
(* seeded with one token: the bindings of t have n variables.  A second    *)
(* transition u, with a name of three segments, reads the first place only.*)
(***************************************************************************)
WideNames == {NamePlain, NameVerbNoun, NameVerbNounVerb, NameFourSegments}

WidePlaceId(i) == "w" \o ToString(i)

WideNet(n, name) ==
  construct(EmptyNet,
    [i \in 1..n |-> [op |-> "addPlace", arg |-> Place(WidePlaceId(i), "W")]]
    \o <<[op |-> "addTransition", arg |-> Transition("t", name, "none", "none")],
         [op |-> "addTransition", arg |-> Transition("u", NameVerbNounVerb, "none", "none")]>>
    \o [i \in 1..n |->
          [op |-> "addArc",
           arg |-> Arc("a" \o ToString(i), WidePlaceId(i), "t", 0, "none", "none")]]
    \o (IF n >= 1
          THEN <<[op |-> "addArc",
                  arg |-> Arc("b1", WidePlaceId(1), "u", 0, "none", "none")]>>
          ELSE <<>>), 1)

\* addToken(WidePlaceId(i), colors[i]) for i = 1 .. Len(colors)
RECURSIVE seed(_, _, _)
seed(pl, colors, i) ==
  IF i > Len(colors) THEN pl
  ELSE seed(addToken(pl, i - 1, WidePlaceId(i), colors[i]).places, colors, i + 1)

InitWide ==
  /\ \E n \in 0..MaxWidth, name \in WideNames :
       \E colors \in [1..n -> SeedColors] :
         /\ places = seed(WideNet(n, name).places, colors, 1)
         /\ transitions = WideNet(n, name).transitions
         /\ arcs = WideNet(n, name).arcs
         /\ tokenCounter = n
  /\ inflight = <<>>
  /\ last = NoOperation
  /\ logger = NoLogger
  /\ ledger = [seeded |-> tokenCounter, consumed |-> 0, produced |-> 0,
              ids |-> 1..tokenCounter]

NextWide == GetEnabledTransitions

SpecWide == InitWide /\ [][NextWide]_vars


(***************************************************************************)
(* Properties.                                                             *)
(***************************************************************************)
\* all tokens of a marking, place after place
RECURSIVE AllTokens(_, _)
AllTokens(pl, i) ==
  IF i > Len(pl) THEN <<>> ELSE pl[i].tokens \o AllTokens(pl, i + 1)

TotalTokens(pl) == Len(AllTokens(pl, 1))

\* the latest operation is a fireTransition call that has just ended successfully
FiringCompleted ==
  last.op \in {"fire", "resolve"} /\ last.outcome = "Done"

\* C1: when the handler rejects, every place holds the token sequence it held
\* immediately before the fireTransition call (no other operation having
\* changed the marking in between).
C1_RejectionRestoresMarking ==
  (last.op = "reject" /\ last.undisturbed) => places = last.callPre

\* C2: every live token is held by exactly one place, which its `place` field
\* names, and once no call is pending the number of tokens in the net is
\* seeded - consumed by completed firings + produced by completed firings.
C2_TokenConservation ==
  /\ \A i \in 1..Len(places) : \A k \in 1..Len(places[i].tokens) :
       places[i].tokens[k].place = places[i].id
  /\ LET all == AllTokens(places, 1) IN
       \A j, k \in 1..Len(all) : all[j].id = all[k].id => j = k
  /\ inflight = <<>> =>
       TotalTokens(places) = ledger.seeded - ledger.consumed + ledger.produced

\* C3: a fireTransition call requested while another call is suspended at its
\* handler does not change any place's tokens (shown for a second call that
\* leaves the choice of binding to the engine).
C3_FiringsSerialized ==
  (last.op = "fire" /\ last.sel = <<>> /\ last.concurrent > 0) => places = last.pre


(***************************************************************************)
(* Token assignments, as the enablement claims speak of them: an           *)
(* assignment gives each input arc Weight(arc) tokens (positions) of its   *)
(* source place that satisfy the arc's pattern.                            *)
(***************************************************************************)
MatchingPositions(pl, arc) ==
  IF MapHas(pl, arc.source)
    THEN {k \in 1..Len(MapGet(pl, arc.source).tokens) :
            PatternHolds(arc, MapGet(pl, arc.source).tokens[k])}
    ELSE {}

ArcChoices(pl, arc) ==
  {S \in SUBSET MatchingPositions(pl, arc) : Cardinality(S) = Weight(arc)}

Assignments(pl, inputArcs) ==
  {f \in [1..Len(inputArcs) ->
            UNION {ArcChoices(pl, inputArcs[i]) : i \in 1..Len(inputArcs)}] :
     \A i \in 1..Len(inputArcs) : f[i] \in ArcChoices(pl, inputArcs[i])}

\* no token is given to two arcs
Distinct(inputArcs, f) ==
  \A i, j \in 1..Len(inputArcs) :
    (i # j /\ inputArcs[i].source = inputArcs[j].source) => f[i] \cap f[j] = {}

\* the bindings that name, for every source place, the color of a token the
\* assignment takes from it
BindingsOf(pl, inputArcs, f) ==
  LET variables == {VariableName(inputArcs[i].source) : i \in 1..Len(inputArcs)}
      colorsOf(i) == {MapGet(pl, inputArcs[i].source).tokens[k].color : k \in f[i]}
  IN  {b \in [variables -> UNION {colorsOf(i) : i \in 1..Len(inputArcs)}] :
         \A v \in variables :
           \E i \in 1..Len(inputArcs) :
             VariableName(inputArcs[i].source) = v /\ b[v] \in colorsOf(i)}

HasHint(pl, trs, as, transitionId) ==
  \E k \in 1..Len(getEnabledTransitions(pl, trs, as)) :
    getEnabledTransitions(pl, trs, as)[k].transitionId = transitionId

\* C4: getEnabledTransitions has a hint for T iff some assignment gives every
\* input arc of weight w w pattern-matching tokens of its source place and T has
\* no guard or its guard holds for such an assignment.
C4_EnabledIffAssignment ==
  \A n \in 1..Len(transitions) :
    LET inputArcs == getInputArcs(arcs, transitions[n].id) IN
      HasHint(places, transitions, arcs, transitions[n].id)
      <=> \E f \in Assignments(places, inputArcs) :
            \/ transitions[n].guard = "none"
            \/ \E b \in BindingsOf(places, inputArcs, f) :
                 GuardResult(transitions[n], b)

\* the input arcs, each asking for a single token (what the search binds)
OneTokenEach(inputArcs) ==
  [i \in 1..Len(inputArcs) |-> [inputArcs[i] EXCEPT !.weight = 1]]

\* C5: the binding search finds a binding only if its input arcs can each be
\* given a token with no token instance given to two arcs; two weight-1 arcs
\* from a place holding a single token have no binding.
C5_NoTokenBoundTwice ==
  \A n \in 1..Len(transitions) :
    LET inputArcs == getInputArcs(arcs, transitions[n].id) IN
      Len(findValidBindings(places, inputArcs)) > 0
      => \E f \in Assignments(places, OneTokenEach(inputArcs)) :
           Distinct(inputArcs, f)

\* C6: a successful firing removes exactly Weight(arc) pattern-matching tokens
\* from the source place of each input arc, mints exactly Weight(arc) tokens
\* in the target place of each output arc, and changes nothing else (shown for
\* calls that leave the choice of binding to the engine).
C6_FiringMovesWeightManyTokens ==
  (FiringCompleted /\ last.sel = <<>> /\ last.undisturbed) =>
    LET inputArcs == getInputArcs(arcs, last.transitionId)
        outputArcs == getOutputArcs(arcs, last.transitionId)
        removedBy(arc) ==
          Cardinality({k \in 1..Len(last.removed) :
                         /\ last.removed[k].arc = arc.id
                         /\ last.removed[k].token.place = arc.source
                         /\ PatternHolds(arc, last.removed[k].token)})
        mintedBy(arc) ==
          Cardinality({k \in 1..Len(last.minted) :
                         /\ last.minted[k].arc = arc.id
                         /\ last.minted[k].place = arc.target})
        inWeight(placeId) == SumWeights(arcsWhere(inputArcs, "source", placeId, 1), 1)
        outWeight(placeId) == SumWeights(arcsWhere(outputArcs, "target", placeId, 1), 1)
    IN  /\ \A i \in 1..Len(inputArcs) : removedBy(inputArcs[i]) = Weight(inputArcs[i])
        /\ \A i \in 1..Len(outputArcs) : mintedBy(outputArcs[i]) = Weight(outputArcs[i])
        /\ \A i \in 1..Len(places) :
             Len(places[i].tokens) =
               Len(last.callPre[i].tokens) - inWeight(places[i].id)
               + outWeight(places[i].id)

\* C7: while a firing's handler is suspended the marking, as getState and
\* getEnabledTransitions show it, is the marking from before the firing.
C7_SuspendedFiringInvisible ==
  (last.op = "fire" /\ last.outcome = "Suspended") =>
    /\ getState(places, transitions, arcs) = getState(last.pre, transitions, arcs)
    /\ getEnabledTransitions(places, transitions, arcs)
       = getEnabledTransitions(last.pre, transitions, arcs)

\* C10: the tokens a successful firing removed are exactly the tokens of the
\* binding given to the guard and the handler: every removed token is bound to
\* the variable of its place, and every bound color is a removed token's
\* (shown for calls that leave the choice of binding to the engine).
C10_RemovedTokensAreTheBoundOnes ==
  (FiringCompleted /\ last.sel = <<>>) =>
    LET binding == last.binding[1] IN
      /\ \A k \in 1..Len(last.removed) :
           /\ VariableName(last.removed[k].token.place) \in DOMAIN binding
           /\ binding[VariableName(last.removed[k].token.place)]
              = last.removed[k].token.color
      /\ \A v \in DOMAIN binding :
           \E k \in 1..Len(last.removed) :
             /\ VariableName(last.removed[k].token.place) = v
             /\ last.removed[k].token.color = binding[v]


\* C8: fireTransition called without a binding, the search finding none, fails
\* with a not-enabled error and leaves every place's token sequence and the
\* token counter as they were.
C8_NoBindingFailsUnchanged ==
  ( /\ last.op = "fire"
    /\ last.sel = <<>>
    /\ MapHas(transitions, last.transitionId)
    /\ Len(findValidBindings(last.pre, getInputArcs(arcs, last.transitionId))) = 0 )
  => /\ last.outcome = "NotEnabled"
     /\ places = last.pre
     /\ tokenCounter = last.preCounter
     /\ Len(inflight) = last.concurrent

\* a search that found nothing, in a net that holds tokens, has just failed
C8_Witness ==
  /\ last.op = "fire"
  /\ last.sel = <<>>
  /\ last.outcome = "NotEnabled"
  /\ TotalTokens(places) > 0

\* C9: when the transition has a guard and the guard rejects every candidate
\* binding, fireTransition fails with a not-enabled error, does not invoke the
\* handler and leaves the marking as it was.
C9_GuardRejectionFailsUnchanged ==
  LET transition == MapGet(transitions, last.transitionId)
      candidates == candidateBindings(last.pre,
                       getInputArcs(arcs, last.transitionId), last.sel)
  IN
  ( /\ last.op = "fire"
    /\ MapHas(transitions, last.transitionId)
    /\ transition.guard # "none"
    /\ Len(candidates) > 0
    /\ \A k \in 1..Len(candidates) : ~GuardResult(transition, candidates[k]) )
  => /\ last.outcome = "GuardFailed"
     /\ last.handlerCalls = 0
     /\ places = last.pre
     /\ tokenCounter = last.preCounter
     /\ Len(inflight) = last.concurrent

\* the guard has just rejected each of several bindings the search found
C9_Witness ==
  /\ last.op = "fire"
  /\ last.sel = <<>>
  /\ last.outcome = "GuardFailed"
  /\ Len(last.bindings) >= 2
  /\ MapGet(transitions, last.transitionId).handler # "none"

(***************************************************************************)
(* First-in-first-out selection, as the selection claim speaks of it: arc  *)
(* after arc, each input arc takes the earliest-inserted tokens of its     *)
(* source place that satisfy its pattern and that no earlier arc took.     *)
(***************************************************************************)
\* position of the earliest matching token no arc has claimed; 0 if none
EarliestUnclaimed(tokens, arc, claimed) ==
  LET free == {i \in 1..Len(tokens) :
                 PatternHolds(arc, tokens[i]) /\ tokens[i].id \notin claimed}
  IN  IF free = {} THEN 0 ELSE CHOOSE i \in free : \A j \in free : i <= j

RECURSIVE FifoTokens(_, _, _, _, _, _)
FifoTokens(pl, inputArcs, k, left, claimed, taken) ==
  IF k > Len(inputArcs) THEN [ok |-> TRUE, taken |-> taken]
  ELSE IF left = 0
    THEN IF k + 1 > Len(inputArcs) THEN [ok |-> TRUE, taken |-> taken]
         ELSE FifoTokens(pl, inputArcs, k + 1, Weight(inputArcs[k + 1]), claimed, taken)
    ELSE IF ~MapHas(pl, inputArcs[k].source) THEN [ok |-> FALSE, taken |-> taken]
    ELSE LET tokens == MapGet(pl, inputArcs[k].source).tokens
             i == EarliestUnclaimed(tokens, inputArcs[k], claimed)
         IN  IF i = 0 THEN [ok |-> FALSE, taken |-> taken]
             ELSE FifoTokens(pl, inputArcs, k, left - 1, claimed \cup {tokens[i].id},
                             Append(taken, [arc |-> inputArcs[k].id, token |-> tokens[i]]))

\* C11: when fireTransition is called without a binding, its input arcs each
\* asking for one token and each having a first-in-first-out token to take, the
\* tokens the call consumes are those tokens, arc by arc, and the binding names
\* the color of each of them under the variable of its place.
C11_FifoTokenSelection ==
  ( /\ last.op = "fire" /\ last.sel = <<>>
    /\ last.outcome \in {"Suspended", "Done"}
    /\ \A arc \in Range(getInputArcs(arcs, last.transitionId)) : Weight(arc) = 1 ) =>
    LET inputArcs == getInputArcs(arcs, last.transitionId)
        fifo == IF Len(inputArcs) = 0 THEN [ok |-> TRUE, taken |-> <<>>]
                ELSE FifoTokens(last.pre, inputArcs, 1, Weight(inputArcs[1]), {}, <<>>)
        binding == last.binding[1]
    IN  fifo.ok =>
          /\ last.removed = fifo.taken
          /\ \A k \in 1..Len(fifo.taken) :
               /\ VariableName(fifo.taken[k].token.place) \in DOMAIN binding
               /\ binding[VariableName(fifo.taken[k].token.place)]
                  = fifo.taken[k].token.color

(***************************************************************************)
(* Results and output colors, spelled out for the handlers and expressions *)
(* of the catalogue.                                                       *)
(***************************************************************************)
TokenById(pl, id) == CHOOSE token \in Range(AllTokens(pl, 1)) : token.id = id

ArcById(as, id) == CHOOSE arc \in Range(as) : arc.id = id

\* what the handler named "done" resolves to; "echo" resolves to its argument
ExpectedResult(transition, binding) ==
  IF transition.handler = "done" THEN [v |-> "d"] ELSE binding

\* the expression named "stamp" maps every result to the color s; "identity"
\* maps a result to itself
ExpectedColor(arc, result) ==
  IF arc.expression = "stamp" THEN [v |-> "s"] ELSE result

\* C12: a successful fireTransition returns the handler's result (the binding
\* when the transition has no handler), and every token it minted on an output
\* arc has the color expression(result), or the result itself when the arc has
\* no expression.
C12_ResultAndOutputColors ==
  FiringCompleted =>
    LET transition == MapGet(transitions, last.transitionId)
        result == last.result[1]
    IN  /\ result = ExpectedResult(transition, last.binding[1])
        /\ \A k \in 1..Len(last.minted) :
             /\ ArcById(arcs, last.minted[k].arc).source = last.transitionId
             /\ TokenById(places, last.minted[k].id).place = last.minted[k].place
             /\ TokenById(places, last.minted[k].id).color
                = ExpectedColor(ArcById(arcs, last.minted[k].arc), result)

\* a handler resolved to a value other than its binding and an output arc with
\* an expression minted a token of yet another color
C12_Witness ==
  /\ FiringCompleted
  /\ last.op = "resolve"
  /\ last.result[1] # last.binding[1]
  /\ \E k \in 1..Len(last.minted) :
       /\ ArcById(arcs, last.minted[k].arc).expression # "none"
       /\ TokenById(places, last.minted[k].id).color # last.result[1]

\* C13: a not-enabled error raised by fireTransition (no binding, or the guard
\* rejecting) carries the hint list getEnabledTransitions returns on the
\* marking at the moment of the failure, in the same order.
C13_ErrorCarriesRankedHints ==
  (last.op = "fire" /\ last.outcome \in {"NotEnabled", "GuardFailed"}) =>
    last.hints = getEnabledTransitions(places, transitions, arcs)

\* the guard has just rejected a call while hints exist whose ranked order is
\* not the order in which the transitions are declared
C13_Witness ==
  /\ last.op = "fire"
  /\ last.outcome = "GuardFailed"
  /\ Len(last.hints) >= 2
  /\ last.hints # collectHints(places, transitions, arcs, 1)

\* C14: fireTransition with an id that is not registered fails as an unknown
\* entity before anything else happens: no handler is invoked, no call is
\* suspended, and every place's tokens and the token counter are unchanged.
C14_UnknownTransitionFails ==
  (last.op = "fire" /\ ~MapHas(transitions, last.transitionId)) =>
    /\ last.outcome = "NotFound"
    /\ last.handlerCalls = 0
    /\ last.removed = <<>> /\ last.minted = <<>>
    /\ places = last.pre
    /\ tokenCounter = last.preCounter
    /\ Len(inflight) = last.concurrent

\* an unregistered transition has just been fired on a net that holds tokens
\* while another call is suspended
C14_Witness ==
  /\ last.op = "fire"
  /\ last.outcome = "NotFound"
  /\ last.transitionId \notin MapIds(transitions)
  /\ TotalTokens(places) > 0
  /\ Len(inflight) > 0

\* C15: addToken on an unregistered place fails and leaves every place and the
\* token counter unchanged; on a registered place it returns an id no token has,
\* appends the token (that id, the given color) at the end of that place's
\* sequence and leaves the earlier tokens and all other places unchanged.
C15_AddTokenAppendsOrFails ==
  last.op = "addToken" =>
    IF ~MapHas(last.pre, last.placeId)
      THEN /\ last.outcome = "PlaceNotFound"
           /\ last.returned = <<>>
           /\ places = last.pre
           /\ tokenCounter = last.preCounter
      ELSE /\ last.outcome = "Done"
           /\ Len(last.returned) = 1
           /\ \A token \in Range(AllTokens(last.pre, 1)) : token.id # last.returned[1]
           /\ Len(places) = Len(last.pre)
           /\ \A i \in 1..Len(places) :
                IF places[i].id = last.placeId
                  THEN places[i] =
                         [last.pre[i] EXCEPT !.tokens =
                            last.pre[i].tokens \o
                              <<[id |-> last.returned[1], color |-> last.color[1],
                                 place |-> last.placeId]>>]
                  ELSE places[i] = last.pre[i]

\* a token has just been added to a place that already held one, another place
\* holding tokens too
C15_Witness ==
  /\ last.op = "addToken"
  /\ last.outcome = "Done"
  /\ Len(MapGet(places, last.placeId).tokens) >= 2
  /\ \E i \in 1..Len(places) :
       places[i].id # last.placeId /\ Len(places[i].tokens) > 0

(***************************************************************************)
(* Construction and inspection.                                            *)
(***************************************************************************)
\* C16: every arc held by the net connects a registered place and a registered
\* transition, one at each end (addArc having rejected every other arc).
C16_ArcsConnectPlaceAndTransition ==
  \A arc \in Range(arcs) :
    \/ MapHas(places, arc.source) /\ MapHas(transitions, arc.target)
    \/ MapHas(transitions, arc.source) /\ MapHas(places, arc.target)

\* C17: addPlace, addTransition or addArc given an id that is already
\* registered leaves the places (with their tokens), the transitions and the
\* arcs as they were.
C17_DuplicateIdsRejected ==
  LET registered ==
        CASE last.op = "addPlace" -> MapIds(last.pre)
          [] last.op = "addTransition" -> MapIds(last.preTransitions)
          [] last.op = "addArc" -> MapIds(last.preArcs)
  IN  (last.op \in {"addPlace", "addTransition", "addArc"}
       /\ last.arg[1].id \in registered)
      => /\ places = last.pre
         /\ transitions = last.preTransitions
         /\ arcs = last.preArcs

\* C18: whatever a caller does to the value getState returned, the net's
\* places, token sequences, transitions and arcs stay as they were.
C18_SnapshotIsReadOnly ==
  last.op \in {"snapshot.places.pop", "snapshot.tokens.pop", "snapshot.arcs.pop"}
  => /\ places = last.pre
     /\ transitions = last.preTransitions
     /\ arcs = last.preArcs

(***************************************************************************)
(* Ranking of hints.                                                       *)
(***************************************************************************)
\* the hints of one confidence, in the order of the list
WithConfidence(hints, c) ==
  LET Has(hint) == hint.confidence = c IN SelectSeq(hints, Has)

\* C19: getEnabledTransitions returns its hints in non-increasing order of
\* confidence; hints of equal confidence stand in the declaration order of
\* their transitions and, within a transition, in the order in which the
\* bindings were enumerated.
C19_HintsRankedStably ==
  LET hints == getEnabledTransitions(places, transitions, arcs)
      emitted == collectHints(places, transitions, arcs, 1)
  IN  /\ Len(hints) = Len(emitted)
      /\ \A i, j \in 1..Len(hints) :
           i < j =>
             /\ hints[i].confidence >= hints[j].confidence
             /\ hints[i].confidence = hints[j].confidence =>
                  MapIndex(transitions, hints[i].transitionId)
                  <= MapIndex(transitions, hints[j].transitionId)
      /\ \A k \in 1..Len(emitted) :
           WithConfidence(hints, emitted[k].confidence)
           = WithConfidence(emitted, emitted[k].confidence)

\* getEnabledTransitions, called for a not-enabled error, has just returned a
\* list in which the ranking moved a hint in front of hints of two other
\* transitions that tie with each other
C19_Witness ==
  LET hints == getEnabledTransitions(places, transitions, arcs)
      emitted == collectHints(places, transitions, arcs, 1)
  IN  /\ last.op = "fire"
      /\ last.outcome \in {"NotEnabled", "GuardFailed"}
      /\ last.hints = hints
      /\ hints # emitted
      /\ \E i, j \in 1..Len(hints) :
           /\ i < j
           /\ hints[i].confidence = hints[j].confidence
           /\ hints[i].transitionId # hints[j].transitionId

\* C20: every hint getEnabledTransitions emits has a confidence between 0 and
\* 1 inclusive (0 and 100 hundredths), and a hint for a transition whose name
\* has three colon-separated segments, with a binding of one variable, has
\* confidence 0.8 exactly.
C20_ConfidenceBounds ==
  \A hint \in Range(getEnabledTransitions(places, transitions, arcs)) :
    /\ hint.confidence >= 0
    /\ hint.confidence <= 100
    /\ (Len(Split(hint.transitionName)) = 3 /\ Cardinality(hint.requiredTokens) = 1)
       => hint.confidence = 80

\* getEnabledTransitions has just returned a hint for a three-segment name with
\* one variable together with a hint whose uncapped sum is above 1
C20_Witness ==
  /\ last.op = "getEnabledTransitions"
  /\ \E hint \in Range(last.hints) :
       /\ Len(Split(hint.transitionName)) = 3
       /\ Cardinality(hint.requiredTokens) = 1
  /\ \E hint \in Range(last.hints) :
       /\ 50 + 10 * Cardinality(hint.requiredTokens)
            + (IF Len(Split(hint.transitionName)) = 3 THEN 20 ELSE 0) > 100
       /\ hint.confidence = 100

\* min(1, 0.5 + 0.1 * bound + (0.2 if segments = 3, else 0)) in hundredths
\* rounded down, the sum taken in double arithmetic from left to right: it is
\* the decimal value in every case but 0.5 + 0.1 * 2 + 0.2, the double
\* 0.8999999999999999.
ClaimedConfidence(bound, segments) ==
  LET bonus == IF segments = 3 THEN 20 ELSE 0
      sum == IF bound = 2 /\ bonus = 20 THEN 89 ELSE 50 + 10 * bound + bonus
  IN  IF sum > 100 THEN 100 ELSE sum

\* C21: the confidence of every hint equals min(1, 0.5 + 0.1 * (number of
\* bound variables) + (0.2 if the transition name has exactly three
\* colon-separated segments, else 0)), as that sum comes out in double
\* arithmetic; names of one, two or more than three segments get no bonus.
C21_ConfidenceFormula ==
  \A hint \in Range(getEnabledTransitions(places, transitions, arcs)) :
    hint.confidence = ClaimedConfidence(Cardinality(hint.requiredTokens),
                                        Len(Split(hint.transitionName)))

\* getEnabledTransitions has just returned a hint for a name of four segments
\* with several variables next to a hint for a name of three segments
C21_Witness ==
  /\ last.op = "getEnabledTransitions"
  /\ \E hint \in Range(last.hints) :
       /\ Len(Split(hint.transitionName)) > 3
       /\ Cardinality(hint.requiredTokens) >= 2
       /\ hint.confidence < 100
  /\ \E hint \in Range(last.hints) :
       /\ Len(Split(hint.transitionName)) = 3
       /\ hint.confidence > 50 + 10 * Cardinality(hint.requiredTokens)

\* C22: path discovery terminates on every net, also on one whose arcs form
\* a cycle through places that hold no token: every call of
\* generateContextualHint returns a hint (a finite path, or none) and never
\* exhausts the call stack.
C22_PathDiscoveryTerminates ==
  last.op = "generateContextualHint" =>
    /\ last.outcome = "Done"
    /\ last.hint # <<>>
    /\ Len(last.hint[1].suggestedPath) <= Len(transitions)

(***************************************************************************)
(* Firing sequences, as the path claims speak of them: the names are fired *)
(* one after another as fireTransition does without a supplied binding,    *)
(* every handler resolving before the next call.                           *)
(***************************************************************************)
\* the marking after a complete firing of transitionId, <<>> if the call fails
FiredMarking(pl, counter, transitionId) ==
  LET call == fireStart(pl, transitions, arcs, counter, transitionId, <<>>)
  IN  IF call.outcome = "Done" THEN <<[places |-> call.places,
                                       tokenCounter |-> call.tokenCounter]>>
      ELSE IF call.outcome = "Suspended"
        THEN LET out == produceOutputTokens(call.places, counter,
                          getOutputArcs(arcs, transitionId),
                          HandlerValue(MapGet(transitions, transitionId),
                                       call.binding[1]))
             IN  IF out.ok THEN <<[places |-> out.places,
                                   tokenCounter |-> out.tokenCounter]>>
                 ELSE <<>>
        ELSE <<>>

\* the markings a firing of the names, in order, can end in
RECURSIVE MarkingsAfter(_, _, _)
MarkingsAfter(pl, counter, names) ==
  IF names = <<>> THEN {pl}
  ELSE UNION {MarkingsAfter(m[1].places, m[1].tokenCounter, Tail(names)) :
                m \in {FiredMarking(pl, counter, t.id) :
                         t \in {t \in Range(transitions) : t.name = names[1]}}
                       \ {<<>>}}

Populates(names, missingPlaces) ==
  \E m \in MarkingsAfter(places, tokenCounter, names) :
    \A placeId \in Range(missingPlaces) : Len(MapGet(m, placeId).tokens) > 0

TransitionNames == {t.name : t \in Range(transitions)}

\* the firing sequences of at most n steps that populate the places; on the
\* nets explored a populating sequence, if any exists, has at most as many
\* steps as the net has transitions
PopulatingPaths(missingPlaces, n) ==
  UNION {{names \in [1..k -> TransitionNames] : Populates(names, missingPlaces)} :
           k \in 0..n}

\* a blocked transition was asked about and a hint came back
HintForBlocked ==
  /\ last.op = "generateContextualHint"
  /\ last.outcome = "Done"
  /\ last.hint[1].missingPlaces # <<>>

\* C23: when a firing sequence can populate the missing places of a blocked
\* transition, suggestedPath is a shortest one: its names can be fired one
\* after another from the current marking, each enabled at its turn, every
\* missing place holds a token afterwards, and no shorter sequence does so.
C23_SuggestedPathIsShortestFireable ==
  (HintForBlocked
     /\ PopulatingPaths(last.hint[1].missingPlaces, Len(transitions)) # {}) =>
    /\ Populates(last.hint[1].suggestedPath, last.hint[1].missingPlaces)
    /\ PopulatingPaths(last.hint[1].missingPlaces,
                       Len(last.hint[1].suggestedPath) - 1) = {}

\* C24: when no firing sequence can populate the missing places of a
\* blocked transition, the hint says so: its text reports 'no path' and its
\* path is not a list (empty or not) of transition names.
C24_NoPathReported ==
  (HintForBlocked
     /\ PopulatingPaths(last.hint[1].missingPlaces, Len(transitions)) = {}) =>
    /\ last.hint[1].readable.template = "no path"
    /\ last.hint[1].readable.try \notin Seq(TransitionNames)

\* the place-description lookup, then the place name, then the place id
Rendered(place) ==
  IF place.id = "file_found" THEN "a found file"
  ELSE IF place.id = "file_read" THEN "file content"
  ELSE IF place.id = "search_results" THEN "search results"
  ELSE IF place.id = "file_written" THEN "a written file"
  ELSE IF place.id = "start" THEN "initial state"
  ELSE IF place.name # "" THEN place.name
  ELSE place.id

\* C25: the missing requirements of a transition are exactly the source
\* places of its input arcs that hold no token satisfying the arc's pattern
\* (a place holding only non-matching tokens is missing), each rendered by
\* the description lookup, else the place name, else the place id.
C25_MissingRequirementsRespectPatterns ==
  (last.op = "generateContextualHint" /\ MapHas(transitions, last.transitionId)) =>
    LET missing == {arc.source : arc \in
                      {arc \in Range(getInputArcs(arcs, last.transitionId)) :
                         MapHas(places, arc.source)
                         /\ MatchingPositions(places, arc) = {}}}
    IN  Range(last.hint[1].missingRequirements)
          = {Rendered(MapGet(places, placeId)) : placeId \in missing}

\* the tokens of a place
TokensIn(pl, placeId) == MapGet(pl, placeId).tokens

\* a call of fireTransition(transitionId) whose handler has resolved
Completed(transitionId) ==
  last.op = "resolve" /\ last.transitionId = transitionId

\* the completed call left a token in the place
MintedInto(placeId) ==
  \E minted \in Range(last.minted) :
    /\ minted.place = placeId
    /\ \E token \in Range(TokensIn(places, placeId)) : token.id = minted.id

\* C26: in the file-operations net seeded with one token in start, (1) only
\* search:files is enabled; (2) a completed firing of search_files leaves a
\* token in search_results whose color has the results file1.ts, file2.ts,
\* README.md, and (3) search:file:read is then enabled with confidence 0.8;
\* (4) a completed firing of search_read leaves a token in file_read; (5) a
\* firing of write_file (without a supplied binding, as in the workflow)
\* while file_read holds no token fails as not enabled and changes no place.
C26_FileWorkflowScenario ==
  /\ (/\ Len(TokensIn(places, "start")) = 1
       /\ \A place \in Range(places) : place.id # "start" => place.tokens = <<>>)
      => LET hints == getEnabledTransitions(places, transitions, arcs)
         IN  /\ Len(hints) = 1
             /\ hints[1].transitionName = NameSearchFiles
  /\ Completed("search_files") =>
       /\ last.outcome = "Done"
       /\ MintedInto("search_results")
       /\ \A minted \in Range(last.minted) :
            \A token \in Range(TokensIn(places, "search_results")) :
              token.id = minted.id =>
                /\ "results" \in DOMAIN token.color
                /\ token.color.results = <<"file1.ts", "file2.ts", "README.md">>
       /\ \E hint \in Range(getEnabledTransitions(places, transitions, arcs)) :
            /\ hint.transitionName = NameSearchFileRead
            /\ hint.confidence = 80
  /\ Completed("search_read") =>
       /\ last.outcome = "Done"
       /\ MintedInto("file_read")
  /\ (/\ last.op = "fire"
       /\ last.transitionId = "write_file"
       /\ last.sel = <<>>
       /\ TokensIn(last.pre, "file_read") = <<>>)
      => /\ last.outcome = "NotEnabled"
         /\ places = last.pre

\* write_file was refused after the search, while search:file:read is on offer
C26_Witness ==
  /\ last.op = "fire"
  /\ last.transitionId = "write_file"
  /\ last.outcome = "NotEnabled"
  /\ TokensIn(places, "start") = <<>>
  /\ \E token \in Range(TokensIn(places, "search_results")) :
       token.color = [query |-> "*.ts", results |-> <<"file1.ts", "file2.ts", "README.md">>]
  /\ \E hint \in Range(last.hints) :
       hint.transitionName = NameSearchFileRead /\ hint.confidence = 80

\* C27: a call of fireTransition that passes the binding and guard checks
\* invokes the handler exactly once, a call that fails them never; when the
\* handler fails the call fails with that error, the handler is not tried
\* again and nothing is minted.
C27_HandlerOnceFailureSurfaced ==
  /\ (last.op = "fire" /\ last.outcome \in {"NotFound", "NotEnabled", "GuardFailed"})
       => last.handlerCalls = 0
  /\ (last.op = "fire" /\ last.outcome = "Suspended") => last.handlerCalls = 1
  /\ last.op \in {"resolve", "reject"} => last.handlerCalls = 1
  /\ last.op = "reject" =>
       /\ last.outcome = "HandlerError"
       /\ Len(inflight) = last.concurrent
       /\ last.minted = <<>>
       /\ places = last.pre
       /\ tokenCounter = last.preCounter

\* a handler failed and its call failed with it
C27_Witness ==
  /\ last.op = "reject"
  /\ last.outcome = "HandlerError"
  /\ last.removed # <<>>
  /\ last.handlerCalls = 1

\* the ids the latest operation gave to the tokens it minted, one per token
NewTokenIds ==
  IF last.op = "addToken" THEN last.returned
  ELSE [i \in 1..Len(last.minted) |-> last.minted[i].id]

\* C28: token ids are never reused: every token minted by addToken or by a
\* firing gets an id that no token, present or consumed, ever had, so no two
\* tokens of the net share an id and an output token never has the id of a
\* token its firing consumed.
C28_TokenIdsNeverReused ==
  /\ \A i \in 1..Len(NewTokenIds) :
       /\ NewTokenIds[i] \notin last.preIds
       /\ \A j \in 1..Len(NewTokenIds) : NewTokenIds[i] = NewTokenIds[j] => i = j
       /\ \A removed \in Range(last.removed) : removed.token.id # NewTokenIds[i]
  /\ \A token \in Range(AllTokens(places, 1)) : token.id \in ledger.ids
  /\ \A place1 \in Range(places), place2 \in Range(places) :
       \A i \in 1..Len(place1.tokens), j \in 1..Len(place2.tokens) :
         place1.tokens[i].id = place2.tokens[j].id => (place1.id = place2.id /\ i = j)

\* a firing minted an output token after consuming an input token, while
\* another consumed token's id is no longer in the net
C28_Witness ==
  /\ last.op \in {"fire", "resolve"}
  /\ last.removed # <<>>
  /\ last.minted # <<>>
  /\ \E id \in ledger.ids : \A token \in Range(AllTokens(places, 1)) : token.id # id

\* input arcs of weight 1 that read registered, pairwise different places:
\* there an assignment is one token per arc and determines one binding
OneTokenPerPlace(pl, inputArcs) ==
  /\ Len(inputArcs) >= 1
  /\ \A i \in 1..Len(inputArcs) :
       /\ Weight(inputArcs[i]) = 1
       /\ MapHas(pl, inputArcs[i].source)
       /\ \A j \in 1..Len(inputArcs) :
            inputArcs[i].source = inputArcs[j].source => i = j

\* the assignments whose binding is b
AssignmentsBinding(pl, inputArcs, b) ==
  {f \in Assignments(pl, inputArcs) : BindingsOf(pl, inputArcs, f) = {b}}

\* the assignments whose binding the guard of the transition (if any) accepts
GuardPassing(pl, transition, inputArcs) ==
  {f \in Assignments(pl, inputArcs) :
     \E b \in BindingsOf(pl, inputArcs, f) : ~GuardRejects(transition, b)}

HintsFor(pl, trs, as, transitionId) ==
  LET hints == getEnabledTransitions(pl, trs, as)
  IN  Cardinality({k \in 1..Len(hints) : hints[k].transitionId = transitionId})

\* C29: the binding search returns every satisfying assignment, not only the
\* first (for input arcs of weight 1 reading different places: one binding per
\* choice of a matching token for every arc), and getEnabledTransitions
\* emits exactly one hint per transition and binding its guard accepts; a
\* guard-less transition with one pattern-less weight-1 input arc from a
\* place holding n tokens has n hints.
C29_AllBindingsOneHintEach ==
  /\ \A transition \in Range(transitions) :
       LET inputArcs == getInputArcs(arcs, transition.id) IN
       OneTokenPerPlace(places, inputArcs) =>
         /\ HintsFor(places, transitions, arcs, transition.id)
              = Cardinality(GuardPassing(places, transition, inputArcs))
         /\ (Len(inputArcs) = 1 /\ inputArcs[1].pattern = "none"
               /\ transition.guard = "none") =>
              HintsFor(places, transitions, arcs, transition.id)
                = Len(MapGet(places, inputArcs[1].source).tokens)
  /\ (/\ last.op = "fire"
       /\ last.sel = <<>>
       /\ last.outcome \in {"NotEnabled", "GuardFailed", "Suspended", "Done"}
       /\ OneTokenPerPlace(last.pre, getInputArcs(arcs, last.transitionId))) =>
        LET inputArcs == getInputArcs(arcs, last.transitionId)
            bindings == IF last.outcome = "NotEnabled" THEN <<>> ELSE last.bindings
        IN  /\ Len(bindings) = Cardinality(Assignments(last.pre, inputArcs))
            /\ \A b \in Range(bindings) :
                 Cardinality({k \in 1..Len(bindings) : bindings[k] = b})
                   = Cardinality(AssignmentsBinding(last.pre, inputArcs, b))

\* the search found two bindings for a guarded transition; the guard accepts
\* one of them, which has a hint, and the guard-less transition reading the
\* same place has a hint per token
C29_Witness ==
  /\ last.op = "fire"
  /\ last.outcome = "GuardFailed"
  /\ Len(last.bindings) = 2
  /\ places = last.pre
  /\ HintsFor(places, transitions, arcs, last.transitionId) = 1
  /\ \E transition \in Range(transitions) :
       /\ transition.guard = "none"
       /\ HintsFor(places, transitions, arcs, transition.id) = 2

\* C30: every binding the binding search produces has one entry per required
\* token: its number of bound variables is the sum of the weights of the
\* transition's input arcs, also when two arcs read the same place or an arc
\* has a weight above 1.
C30_OneEntryPerRequiredToken ==
  \A transition \in Range(transitions) :
    LET inputArcs == getInputArcs(arcs, transition.id) IN
    \A binding \in Range(findValidBindings(places, inputArcs)) :
      BindingSize(binding) = SumWeights(inputArcs, 1)

\* the guards of the catalogue that accept the empty binding
AcceptsEmptyBinding(transition) == transition.guard \in {"none", "isEmpty"}

\* C31: a transition without input arcs has exactly one binding, the empty
\* one, in every marking: it has a hint (requiring no token) exactly when it
\* has no guard or its guard accepts the empty binding, and firing it
\* consumes no token.
C31_NoInputArcsOneEmptyBinding ==
  /\ \A transition \in Range(transitions) :
       getInputArcs(arcs, transition.id) = <<>> =>
         /\ HintsFor(places, transitions, arcs, transition.id)
              = (IF AcceptsEmptyBinding(transition) THEN 1 ELSE 0)
         /\ \A hint \in Range(getEnabledTransitions(places, transitions, arcs)) :
              hint.transitionId = transition.id => hint.requiredTokens = {}
  /\ (/\ last.op \in {"fire", "resolve", "reject"}
       /\ last.sel = <<>>
       /\ MapHas(transitions, last.transitionId)
       /\ getInputArcs(arcs, last.transitionId) = <<>>) =>
        /\ last.removed = <<>>
        /\ \A token \in Range(AllTokens(last.pre, 1)) :
             token \in Range(AllTokens(places, 1))
        /\ last.op = "fire" =>
             /\ last.outcome # "NotEnabled"
             /\ last.outcome = "GuardFailed"
                  <=> ~AcceptsEmptyBinding(MapGet(transitions, last.transitionId))
             /\ last.outcome # "GuardFailed" => last.bindings = <<EmptyObject>>

\* a transition without input arcs fired in a marking that holds tokens, minted
\* its output and took nothing
C31_Witness ==
  /\ last.op = "fire"
  /\ last.transitionId = "s"
  /\ last.outcome = "Done"
  /\ last.minted # <<>>
  /\ AllTokens(last.pre, 1) # <<>>
  /\ last.binding = <<EmptyObject>>

\* C32: the fireTransition installed by integrateContextualHints keeps the
\* execution contract: every call ends as the original fireTransition ends
\* on the same marking, with the same result or the same kind of error and
\* the same change of the marking; on a not-enabled error only the message
\* differs.
C32_WrapperPreservesContract ==
  last.op = "wrappedFire" =>
    LET original == fireStart(last.pre, transitions, arcs, last.preCounter,
                              last.transitionId, last.sel)
    IN  /\ last.outcome = original.outcome
        /\ places = original.places
        /\ tokenCounter = original.tokenCounter
        /\ last.result = original.result
        /\ last.removed = original.removed
        /\ last.minted = original.minted
        /\ last.hints = original.hints

\* the sessions whose last activity is less than the timeout before `now`
RecentSessions(sessions, now) ==
  {i \in 1..Len(sessions) : now - sessions[i].lastActivity < logger.timeout}

\* C33: logToolCall attributes a call to an existing session exactly when
\* that session's last activity is less than the session timeout ago, setting
\* its last activity to now and adding one to its call count; otherwise it
\* creates a new session; at any time at most one tracked session is within
\* its timeout window.
C33_SessionsGroupedByRecentActivity ==
  /\ Cardinality(RecentSessions(logger.sessions, logger.now)) <= 1
  /\ (logger.last.op = "logToolCall" /\ logger.enabled) =>
       LET pre == logger.last.pre
           now == logger.last.now
           event == logger.last.event[1]
       IN  /\ event.timestamp = now
           /\ IF RecentSessions(pre, now) # {}
                THEN \E i \in RecentSessions(pre, now) :
                       /\ event.sessionId = pre[i].sessionId
                       /\ logger.sessions = [pre EXCEPT ![i].lastActivity = now,
                                                         ![i].toolCallCount = @ + 1]
                ELSE /\ Len(logger.sessions) = Len(pre) + 1
                     /\ SubSeq(logger.sessions, 1, Len(pre)) = pre
                     /\ \A k \in 1..Len(pre) : pre[k].sessionId # event.sessionId
                     /\ logger.sessions[Len(pre) + 1]
                          = [sessionId |-> event.sessionId, startTime |-> now,
                             lastActivity |-> now, toolCallCount |-> 1]

\* a call joined the recent session while an expired one is still tracked
C33_Witness ==
  /\ logger.last.op = "logToolCall"
  /\ Len(logger.last.pre) = 2
  /\ Len(logger.sessions) = 2
  /\ logger.sessions[2].toolCallCount = 2
  /\ logger.sessions[2].lastActivity > logger.sessions[2].startTime
  /\ logger.now - logger.sessions[1].lastActivity >= logger.timeout

\* C34: query and firing agree: when getEnabledTransitions has a hint for a
\* transition, fireTransition on it without a binding, in the same marking,
\* does not fail with a not-enabled error, also when the guard rejects the
\* first binding found and accepts a later one.
C34_HintedTransitionFires ==
  (/\ last.op = "fire"
   /\ last.sel = <<>>
   /\ HasHint(last.pre, transitions, arcs, last.transitionId)) =>
    last.outcome \notin {"NotEnabled", "GuardFailed"}

\* every input arc finds Weight(arc) tokens satisfying its pattern in its place
InputsAvailable(pl, inputArcs) ==
  \A arc \in Range(inputArcs) :
    Cardinality(MatchingPositions(pl, arc)) >= Weight(arc)

\* C35: a call of fireTransition with a caller-supplied binding invokes the
\* handler and produces output tokens only if every input arc's place holds
\* at least weight-many tokens satisfying the arc's pattern when the call is
\* made; no such call mints output tokens after consuming fewer input tokens
\* than the arcs require.
C35_SuppliedBindingNeedsTokens ==
  /\ (/\ last.op = "fire"
       /\ last.sel # <<>>
       /\ last.outcome \in {"Suspended", "Done", "PlaceNotFound"}) =>
        InputsAvailable(last.pre, getInputArcs(arcs, last.transitionId))
  /\ (/\ last.op \in {"fire", "resolve"}
       /\ last.sel # <<>>
       /\ last.minted # <<>>) =>
        Len(last.removed) = SumWeights(getInputArcs(arcs, last.transitionId), 1)

\* the ids of the tokens a call removed
RemovedIds(removed) == {removed[i].token.id : i \in 1..Len(removed)}

\* the call needs one token for the arc, the place holds none that fits, and
\* a call suspended at its handler has taken one that would have fitted
TakenBySuspended(pl, arc, suspended) ==
  /\ Weight(arc) = 1
  /\ MatchingPositions(pl, arc) = {}
  /\ \E k \in 1..Len(suspended) :
       \E taken \in Range(suspended[k].removed) :
         taken.token.place = arc.source /\ PatternHolds(arc, taken.token)

\* C36: no token is consumed by two firings: the calls suspended at their
\* handlers have consumed different tokens, and a call issued while another
\* call is suspended that needs the single token the suspended call has
\* taken fails with a not-enabled error.
C36_NoTokenConsumedTwice ==
  /\ \A j, k \in 1..Len(inflight) :
       j # k => RemovedIds(inflight[j].removed) \cap RemovedIds(inflight[k].removed) = {}
  /\ (last.op = "fire" /\ last.outcome \notin {"Suspended"}) =>
       \A k \in 1..Len(inflight) :
         RemovedIds(last.removed) \cap RemovedIds(inflight[k].removed) = {}
  /\ (/\ last.op = "fire"
       /\ last.concurrent >= 1
       /\ \E arc \in Range(getInputArcs(arcs, last.transitionId)) :
            TakenBySuspended(last.pre, arc, SubSeq(inflight, 1, last.concurrent))) =>
        last.outcome = "NotEnabled"

\* C37: once the handler of a firing has succeeded (or there is none), the
\* commit is all or nothing: the call either consumes for every input arc
\* and produces for every output arc, or fails and leaves the marking as it
\* was before the call; no call ends with tokens consumed and only part of
\* the outputs produced.
C37_CommitAllOrNothing ==
  /\ (last.op = "fire" /\ last.outcome \in {"Done", "PlaceNotFound"}) =>
       \/ /\ last.outcome = "Done"
          /\ Len(last.minted) = OutputCount(last.transitionId)
       \/ /\ last.outcome # "Done"
          /\ places = last.pre
  /\ (last.op = "resolve" /\ last.undisturbed) =>
       \/ /\ last.outcome = "Done"
          /\ Len(last.minted) = OutputCount(last.transitionId)
       \/ /\ last.outcome # "Done"
          /\ places = last.callPre

\* C38: generateContextualHint describes a transition as 'ready to execute'
\* (empty missingRequirements) only if the transition is enabled in the
\* current marking: fireTransition on it would not fail as not enabled,
\* neither for want of a binding (arc pattern, arc weight) nor by its guard.
C38_ReadyOnlyIfEnabled ==
  (/\ last.op = "generateContextualHint"
   /\ last.outcome = "Done"
   /\ last.hint[1].readable.template = "is ready to execute"
   /\ last.hint[1].missingRequirements = <<>>) =>
    fireStart(places, transitions, arcs, tokenCounter,
              last.transitionId, <<>>).outcome \notin {"NotEnabled", "GuardFailed"}

\* C39: structure mutation leaves the marking alone: after addPlace,
\* addTransition or addArc, called at any time (also while a handler is
\* suspended), every place registered before the call is still registered
\* and holds the same tokens in the same order.
C39_StructureMutationKeepsMarking ==
  (last.op \in {"addPlace", "addTransition", "addArc"}) =>
    \A i \in 1..Len(last.pre) :
      \E j \in 1..Len(places) :
        /\ places[j].id = last.pre[i].id
        /\ places[j].tokens = last.pre[i].tokens

\* the tokens of a sequence that a call with the given counter before it
\* found there (Older) and those it created (Newer)
Older(tokens, counter) == SelectSeq(tokens, LAMBDA token : token.id <= counter)

Newer(tokens, counter) == SelectSeq(tokens, LAMBDA token : token.id > counter)

Survivors(tokens, removed) ==
  SelectSeq(tokens, LAMBDA token : token.id \notin RemovedIds(removed))

\* C40: places keep FIFO order across firings: after addToken, a firing or
\* the resumption of a firing, every place holds the tokens it held before
\* that were not consumed, in their previous relative order, followed by the
\* tokens the step produced or seeded.
C40_PlacesKeepFifoOrder ==
  (last.op \in {"addToken", "fire", "resolve"}) =>
    /\ Len(places) = Len(last.pre)
    /\ \A i \in 1..Len(places) :
         /\ places[i].tokens =
              Older(places[i].tokens, last.preCounter) \o
              Newer(places[i].tokens, last.preCounter)
         /\ Older(places[i].tokens, last.preCounter) =
              Survivors(last.pre[i].tokens, last.removed)

\* a firing has consumed a token of a place in which two others remain
C40_Witness ==
  /\ last.op = "fire"
  /\ last.removed # <<>>
  /\ \E i \in 1..Len(places) :
       /\ Len(places[i].tokens) >= 2
       /\ Len(last.pre[i].tokens) > Len(places[i].tokens)

====
